---- MODULE Spec2Model ----
(***************************************************************************)
(* Model of the g-client daemon: the button debounce/press classifier      *)
(* (button_handler.c), the control-channel FSM (vpn_controller.c), the     *)
(* network-session FSM (websocket_client.c) and the orchestrator           *)
(* (client_state_machine.c), in the production (non-TESTING) build.        *)
(*                                                                         *)
(* Every C function is an operator from a world record w (the contexts of  *)
(* the four modules, the transport, and the observation record obs) to the *)
(* world after the call; sequential C code is operator composition.        *)
(*                                                                         *)
(* Time.  The code reads the clock only to form differences                *)
(* "now - stored instant".  Each stored instant X_time is therefore kept   *)
(* as X_age = now - X_time in milliseconds; storing "now" sets the age to  *)
(* 0, and the passing of time adds to every age.  An age saturates at the  *)
(* largest threshold it is ever compared with, which no comparison can     *)
(* tell from the true value.                                               *)
(***************************************************************************)
EXTENDS Integers, Sequences, FiniteSets, TLC

VARIABLES btn, vpn, ws, cli, env, obs

vars == <<btn, vpn, ws, cli, env, obs>>

World == [btn |-> btn, vpn |-> vpn, ws |-> ws, cli |-> cli, env |-> env, obs |-> obs]

Commit(w) ==
    /\ btn' = w.btn
    /\ vpn' = w.vpn
    /\ ws' = w.ws
    /\ cli' = w.cli
    /\ env' = w.env
    /\ obs' = w.obs

(***************************************************************************)
(* Program constants                                                       *)
(***************************************************************************)
BUTTON_DEFAULT_DEBOUNCE_MS == 50
BUTTON_LONG_PRESS_THRESHOLD_MS == 2000
BUTTON_POLL_INTERVAL_MS == 10

VPN_CONNECT_TIMEOUT_MS == 30000
VPN_COMMAND_TIMEOUT_MS == 5000
VPN_MAX_RETRY_ATTEMPTS == 3
VPN_RETRY_INTERVAL_MS == 5000

WS_MAX_MESSAGE_SIZE == 4096
WS_PING_INTERVAL_MS == 30000

CLIENT_VPN_CONNECT_TIMEOUT_S == 30
CLIENT_WS_CONNECT_TIMEOUT_S == 10
CLIENT_PS5_QUERY_TIMEOUT_S == 5
CLIENT_LED_UPDATE_DURATION_S == 2
CLIENT_RETRY_INTERVAL_S == 5
ERROR_FINAL_SLEEP_S == 5
DEFAULT_MAX_RETRY_ATTEMPTS == 3

(* websocket_client.c uses four macros that no header under src/ defines     *)
(* (websocket_client.h names the delays WS_RECONNECT_DELAY_INIT_MS,          *)
(* WS_RECONNECT_DELAY_MAX_MS and WS_PONG_TIMEOUT_MS and has no attempt cap). *)
(* The intervals take the header's values; the attempt cap is the spec's     *)
(* "explicit cap", whose value the spec leaves open.                         *)
WS_RECONNECT_INTERVAL_MS == 1000
WS_MAX_RECONNECT_INTERVAL_MS == 60000
WS_PING_TIMEOUT_MS == 5000
WS_MAX_RECONNECT_ATTEMPTS == 10

(***************************************************************************)
(* Bounds of the model                                                     *)
(***************************************************************************)
\* consecutive pressed samples are counted up to MaxRun
MaxRun == 8
\* the statistics counters (uint32 in the code) are counted up to MaxStat
\* within one step
MaxStat == 2
\* sends, re-sends and handler runs are counted up to MaxObs
MaxObs == 4
\* the grain of the clock while the button alone is observed, in milliseconds
ButtonGrain == 500
\* the grain of the clock while the control channel alone is observed
VpnGrain == 1000
\* the grain of the clock while the network session alone is observed
WsGrain == 5000
\* the largest count of reconnection attempts observed
MaxAttempts == 12
\* the grain of the clock of the whole client
Grain == 10000
\* the button is pressed at most MaxPresses times
MaxPresses == 2
\* the agent and the transport fail at most MaxFaults times
MaxFaults == 1

Min(a, b) == IF a < b THEN a ELSE b
Max(a, b) == IF a > b THEN a ELSE b

\* an age after dt more milliseconds, saturating at cap
Age(a, dt, cap) == IF a + dt >= cap THEN cap ELSE a + dt

\* a counter incremented, saturating at cap
Inc(n, cap) == IF n >= cap THEN cap ELSE n + 1

ClientStates ==
    {"IDLE", "VPN_CONNECTING", "VPN_CONNECTED", "WS_CONNECTING", "QUERYING_PS5",
     "LED_UPDATE", "WAITING", "ERROR", "CLEANUP"}

(***************************************************************************)
(* Orchestrator helpers (client_state_machine.c)                           *)
(***************************************************************************)

\* is_state_timeout: no deadline when current_timeout = 0
\* is_state_timeout with a deadline that is never reached
is_state_timeout_late(w) ==
    IF w.cli.current_timeout = 0
    THEN FALSE
    ELSE w.cli.state_enter_age > w.cli.current_timeout

is_state_timeout(w) ==
    IF w.cli.current_timeout = 0
    THEN FALSE
    ELSE w.cli.state_enter_age >= w.cli.current_timeout

\* change_state of the orchestrator: a no-op for the current state; otherwise
\* previous/current/entry time are set together and the state sink is invoked
\* (obs.state_calls records the sink's invocations of the running step; the
\* observations of a stay in VPN_CONNECTING or QUERYING_PS5 start afresh;
\* obs.cleanup_from is the state the running cycle left for CLEANUP).
\* change_state without the invocation of the state sink
client_change_state_silent(w, new_state) ==
    [w EXCEPT !.cli.previous_state = w.cli.current_state,
              !.cli.current_state = new_state,
              !.cli.state_enter_age = 0]

client_change_state_skip(w, new_state) ==
    [w EXCEPT !.cli.previous_state = w.cli.current_state,
              !.cli.current_state = new_state,
              !.cli.state_enter_age = 0,
              !.obs.state_calls = Append(@, <<w.cli.current_state, new_state>>),
              !.obs.q_calls = IF new_state = "QUERYING_PS5" THEN 0 ELSE @,
              !.obs.q_ran = IF new_state = "QUERYING_PS5" THEN FALSE ELSE @,
              !.obs.vc_ran = IF new_state = "VPN_CONNECTING" THEN FALSE ELSE @,
              !.obs.led_calls = IF new_state = "LED_UPDATE" THEN 0 ELSE @,
              !.obs.led_ran = IF new_state = "LED_UPDATE" THEN FALSE ELSE @,
              !.obs.unanswered = IF new_state = "VPN_CONNECTING" THEN FALSE ELSE @,
              !.obs.cleanup_from = CASE new_state = "CLEANUP" -> w.cli.current_state
                                     [] new_state = "VPN_CONNECTING" -> ""
                                     [] OTHER -> @]

client_change_state(w, new_state) ==
    IF w.cli.current_state = new_state
    THEN w
    ELSE client_change_state_skip(w, new_state)

\* report_error: records the error, counts it, invokes the error sink
report_error(w, error) ==
    [w EXCEPT !.cli.last_error = error,
              !.cli.error_count = Inc(@, w.cli.config.max_retry_attempts + 1),
              !.cli.stats.error_count = Inc(@, MaxStat),
              !.obs.error_calls = Append(@, error)]

\* on_button_event, without the test of the current state
on_button_event_any_state(w, event) ==
    LET w1 == [w EXCEPT !.cli.stats.button_press_count = Inc(@, MaxStat)]
    IN  IF event = "SHORT_PRESS"
        THEN client_change_state(w1, "VPN_CONNECTING")
        ELSE w1

\* on_button_event: only a short press in IDLE starts a cycle
on_button_event(w, event) ==
    LET w1 == [w EXCEPT !.cli.stats.button_press_count = Inc(@, MaxStat)]
    IN  IF event = "SHORT_PRESS" /\ w.cli.current_state = "IDLE"
        THEN client_change_state(w1, "VPN_CONNECTING")
        ELSE w1

\* on_vpn_state_change: the control channel's sink only counts tunnels
on_vpn_state_change(w, old_state, new_state) ==
    IF new_state = "CONNECTED"
    THEN [w EXCEPT !.cli.stats.vpn_success_count = Inc(@, MaxStat)]
    ELSE w

\* the payloads the session can deliver, named by the status fields in them
WsPayloads == {"on", "standby", "off", "on_off", "other"}

\* the status fields a payload contains
StatusFields(message) ==
    CASE message = "on" -> {"on"}
      [] message = "standby" -> {"standby"}
      [] message = "off" -> {"off"}
      [] message = "on_off" -> {"on", "off"}
      [] OTHER -> {}

\* strstr(message, "\"status\":\"<value>\"") # NULL
strstr_status(message, value) == value \in StatusFields(message)

\* on_ws_message with every payload without "on" or "standby" read as OFF
on_ws_message_default_off(w, message) ==
    LET w0 == [w EXCEPT !.obs.msg = <<message, w.cli.current_state>>]
        w1 == CASE strstr_status(message, "on") ->
                       [w0 EXCEPT !.cli.ps5_status = "ON",
                                  !.cli.stats.successful_queries = Inc(@, MaxStat)]
                [] strstr_status(message, "standby") ->
                       [w0 EXCEPT !.cli.ps5_status = "STANDBY",
                                  !.cli.stats.successful_queries = Inc(@, MaxStat)]
                [] OTHER ->
                       [w0 EXCEPT !.cli.ps5_status = "OFF",
                                  !.cli.stats.successful_queries = Inc(@, MaxStat)]
    IN  IF w1.cli.current_state = "QUERYING_PS5"
        THEN client_change_state(w1, "LED_UPDATE")
        ELSE w1

\* on_ws_message: the status is parsed and counted in every state, the first
\* of the three fields found deciding; only QUERYING_PS5 moves on
\* (obs.msg: the payload and the state it arrived in)
on_ws_message(w, message) ==
    LET w0 == [w EXCEPT !.obs.msg = <<message, w.cli.current_state>>]
        w1 == IF strstr_status(message, "on")
              THEN [w0 EXCEPT !.cli.ps5_status = "ON",
                              !.cli.stats.successful_queries = Inc(@, MaxStat)]
              ELSE IF strstr_status(message, "standby")
              THEN [w0 EXCEPT !.cli.ps5_status = "STANDBY",
                              !.cli.stats.successful_queries = Inc(@, MaxStat)]
              ELSE IF strstr_status(message, "off")
              THEN [w0 EXCEPT !.cli.ps5_status = "OFF",
                              !.cli.stats.successful_queries = Inc(@, MaxStat)]
              ELSE [w0 EXCEPT !.cli.ps5_status = "UNKNOWN",
                              !.cli.stats.failed_queries = Inc(@, MaxStat)]
    IN  IF w1.cli.current_state = "QUERYING_PS5"
        THEN client_change_state(w1, "LED_UPDATE")
        ELSE w1

\* on_ws_connected, without the test of the current state
on_ws_connected_any_state(w) == client_change_state(w, "QUERYING_PS5")

on_ws_connected(w) ==
    IF w.cli.current_state = "WS_CONNECTING"
    THEN client_change_state(w, "QUERYING_PS5")
    ELSE w

on_ws_disconnected(w) == w

\* on_ws_error without the error report
on_ws_error_silent(w) ==
    IF w.cli.current_state \in {"WS_CONNECTING", "QUERYING_PS5"}
    THEN client_change_state(w, "ERROR")
    ELSE w

on_ws_error(w) ==
    IF w.cli.current_state \in {"WS_CONNECTING", "QUERYING_PS5"}
    THEN client_change_state(report_error(w, "WS_FAILED"), "ERROR")
    ELSE w

(***************************************************************************)
(* ButtonFSM (button_handler.c)                                            *)
(***************************************************************************)

\* samples of the input line: 0 = pressed (active low), 1 = released,
\* -1 = read error
GpioValues == {0, 1, -1}

\* button_handler_init's choice of the debounce duration
InitDebounce(debounce_ms) ==
    IF debounce_ms > 0 THEN debounce_ms ELSE BUTTON_DEFAULT_DEBOUNCE_MS

\* required_stable = max(1, debounce_ms / BUTTON_POLL_INTERVAL_MS)
RequiredStable(debounce_ms) ==
    LET required_stable == debounce_ms \div BUTTON_POLL_INTERVAL_MS
    IN  IF required_stable < 1 THEN 1 ELSE required_stable

\* the record of a sink's run: the event and the orchestrator's state before
\* and after it (obs.events lists the sinks run in the running step)
leaf_event(w0, w1, event) ==
    [w1 EXCEPT !.obs.events =
                   Append(@, <<event, w0.cli.current_state, w1.cli.current_state>>)]

\* trigger_event: the registered sink (on_button_event) receives the event;
\* obs counts the events of the current press
trigger_event(w, event) ==
    LET w1 == [w EXCEPT !.obs.btn_short = IF event = "SHORT_PRESS" THEN Inc(@, MaxObs) ELSE @,
                        !.obs.btn_long = IF event = "LONG_PRESS" THEN Inc(@, MaxObs) ELSE @,
                        !.obs.presses = Inc(@, MaxPresses)]
    IN  leaf_event(w1, on_button_event(w1, event), event)

btn_change_state(w, new_state) == [w EXCEPT !.btn.current_state = new_state]

\* the IDLE case, without the reset of stable_count
btn_idle_case_no_reset(w, button_pressed) ==
    IF button_pressed
    THEN [btn_change_state(w, "DEBOUNCING") EXCEPT !.btn.long_press_triggered = FALSE]
    ELSE w

btn_idle_case(w, button_pressed) ==
    IF button_pressed
    THEN [btn_change_state(w, "DEBOUNCING") EXCEPT
              !.btn.stable_count = 0,
              !.btn.long_press_triggered = FALSE]
    ELSE w

\* the DEBOUNCING case, reaching PRESSED one sample early
btn_debouncing_case_early(w, button_pressed) ==
    IF button_pressed
    THEN LET w1 == [w EXCEPT !.btn.stable_count = @ + 1]
         IN  IF w1.btn.stable_count + 1 >= RequiredStable(w1.btn.debounce_ms)
             THEN [btn_change_state(w1, "PRESSED") EXCEPT !.btn.press_start_age = 0]
             ELSE w1
    ELSE btn_change_state(w, "IDLE")

btn_debouncing_case(w, button_pressed) ==
    IF button_pressed
    THEN LET w1 == [w EXCEPT !.btn.stable_count = @ + 1]
         IN  IF w1.btn.stable_count >= RequiredStable(w1.btn.debounce_ms)
             THEN [btn_change_state(w1, "PRESSED") EXCEPT !.btn.press_start_age = 0]
             ELSE w1
    ELSE btn_change_state(w, "IDLE")

btn_pressed_case(w, button_pressed) ==
    IF ~button_pressed
    THEN btn_change_state(
             IF ~w.btn.long_press_triggered THEN trigger_event(w, "SHORT_PRESS") ELSE w,
             "IDLE")
    ELSE IF /\ w.btn.press_start_age >= w.btn.long_press_threshold_ms
            /\ ~w.btn.long_press_triggered
         THEN btn_change_state(
                  trigger_event([w EXCEPT !.btn.long_press_triggered = TRUE], "LONG_PRESS"),
                  "LONG_DETECTED")
         ELSE w

\* the LONG_DETECTED case, reporting the release as a short press
btn_long_detected_case_emits(w, button_pressed) ==
    IF ~button_pressed
    THEN btn_change_state(trigger_event(w, "SHORT_PRESS"), "IDLE")
    ELSE w

btn_long_detected_case(w, button_pressed) ==
    IF ~button_pressed THEN btn_change_state(w, "IDLE") ELSE w

\* update_state_machine: one sample of the line
update_state_machine(w, current_value) ==
    IF current_value < 0
    THEN w
    ELSE LET button_pressed == (current_value = 0)
         IN  CASE w.btn.current_state = "IDLE" -> btn_idle_case(w, button_pressed)
               [] w.btn.current_state = "DEBOUNCING" -> btn_debouncing_case(w, button_pressed)
               [] w.btn.current_state = "PRESSED" -> btn_pressed_case(w, button_pressed)
               [] w.btn.current_state = "LONG_DETECTED" ->
                      btn_long_detected_case(w, button_pressed)
               [] OTHER -> btn_change_state(w, "IDLE")

\* (obs.ticks lists the tick functions called in the running step, and then
\* the handler switch of client_sm_update)
button_handler_process(w0, current_value) ==
    LET w == [w0 EXCEPT !.obs.ticks = Append(@, "button_handler_process")]
    IN  IF ~w.btn.initialized THEN w ELSE update_state_machine(w, current_value)

\* what the sample shows of the press, recorded before the FSM handles it
ObserveSample(w, current_value) ==
    LET starts == /\ current_value = 0
                  /\ w.btn.current_state = "IDLE"
        holds == /\ current_value = 0
                 /\ w.btn.current_state = "PRESSED"
                 /\ w.btn.press_start_age >= w.btn.long_press_threshold_ms
    IN  [w EXCEPT !.obs.btn_lows = CASE current_value = 0 -> Inc(@, MaxRun)
                                      [] current_value > 0 -> 0
                                      [] OTHER -> @,
                  !.obs.btn_short = IF starts THEN 0 ELSE @,
                  !.obs.btn_long = IF starts THEN 0 ELSE @,
                  !.obs.btn_pressed_after = IF starts THEN 0 ELSE @,
                  !.obs.btn_released_early = IF starts THEN FALSE ELSE @,
                  !.obs.btn_held_past = IF starts THEN FALSE ELSE (@ \/ holds)]

\* ... and after
ObservePress(w0, w, current_value) ==
    [w EXCEPT !.obs.btn_pressed_after =
                  IF w0.btn.current_state # "PRESSED" /\ w.btn.current_state = "PRESSED"
                  THEN w.obs.btn_lows
                  ELSE @,
              !.obs.btn_aborted =
                  CASE w0.btn.current_state = "DEBOUNCING" /\ w.btn.current_state = "IDLE" -> TRUE
                    [] w.btn.current_state = "PRESSED" -> FALSE
                    [] OTHER -> @,
              !.obs.btn_released_early =
                  @ \/ (/\ w0.btn.current_state = "PRESSED"
                        /\ current_value > 0
                        /\ ~w0.obs.btn_held_past
                        /\ w0.btn.press_start_age < w0.btn.long_press_threshold_ms)]

\* the statistics before anything is counted
ZeroStats ==
    [button_press_count |-> 0, successful_queries |-> 0, failed_queries |-> 0,
     vpn_connect_count |-> 0, vpn_success_count |-> 0, error_count |-> 0]

\* the argument of ws_client_send: a NULL pointer or a string of a length
Message(len) == [null |-> FALSE, len |-> len]
NullMessage == [null |-> TRUE, len |-> 0]

\* a step begins: the sinks' records of the previous step are dropped, and the
\* statistics, which the code only ever increments, are counted from zero, so
\* that after a step they hold the increments of that step
BeginStep(w) ==
    [w EXCEPT !.obs.state_calls = <<>>, !.obs.error_calls = <<>>, !.cli.stats = ZeroStats,
              !.obs.vpn_overlap = FALSE, !.obs.msg = <<>>, !.obs.vpn_sends = 0,
              !.obs.call = "", !.obs.ret = 0, !.obs.arg = NullMessage,
              !.obs.ws_sinks = <<>>, !.obs.ws_opens = 0,
              !.obs.pings = 0, !.obs.forced = FALSE,
              !.obs.api = <<>>, !.obs.handlers = <<>>, !.obs.ticks = <<>>,
              !.obs.serviced = "",
              !.obs.events = <<>>,
              !.obs.invoked = <<>>, !.obs.vpn_recvs = 0,
              !.obs.vpn_token = ""]

(***************************************************************************)
(* ControlChannelFSM (vpn_controller.c)                                    *)
(***************************************************************************)

\* what the agent's socket does during one call: whether a connect to the
\* socket path succeeds, whether a send succeeds, and what a non-blocking
\* receive returns ("none": EAGAIN, "fail": error or closed, else a reply)
VpnReplies == {"connected", "connecting", "disconnecting", "disconnected", "error", "garbled"}

\* ... during a call that only sends
SendInputs == [conn : BOOLEAN, send : BOOLEAN, recv : {"none"}]

\* ... during vpn_controller_process, which either sends or receives
AgentInputs ==
    SendInputs \cup [conn : {TRUE}, send : {TRUE}, recv : {"none", "fail"} \cup VpnReplies]

vpn_is_timeout(w) == w.vpn.operation_age >= w.vpn.operation_timeout

\* (vpn.callback: 0 for NULL, else the number of the registration;
\* obs.invoked lists the registrations whose sinks ran in the running step)
vpn_change_state(w, new_state) ==
    IF w.vpn.current_state = new_state
    THEN w
    ELSE IF w.vpn.callback # 0
         THEN on_vpn_state_change(
                  [w EXCEPT !.vpn.previous_state = w.vpn.current_state,
                            !.vpn.current_state = new_state,
                            !.obs.invoked = Append(@, <<"vpn", w.vpn.callback>>)],
                  w.vpn.current_state, new_state)
         ELSE [w EXCEPT !.vpn.previous_state = w.vpn.current_state,
                        !.vpn.current_state = new_state]

\* send_command: connects to the agent first when there is no socket
send_command_ok(w, a) == (w.vpn.sockfd >= 0 \/ a.conn) /\ a.send

\* (obs.vpn_sends counts the calls of send_command in the running step)
send_command(w, a) ==
    IF w.vpn.sockfd < 0
    THEN [w EXCEPT !.vpn.sockfd = IF a.conn THEN 3 ELSE -1,
                   !.obs.vpn_sends = Inc(@, MaxObs)]
    ELSE [w EXCEPT !.obs.vpn_sends = Inc(@, MaxObs)]

\* receive_response: "fail" is the return value -1, "none" the return value 0
receive_response(w, a) == IF w.vpn.sockfd < 0 THEN "fail" ELSE a.recv

parse_state_from_response(response) ==
    CASE response = "connected" -> "CONNECTED"
      [] response = "connecting" -> "CONNECTING"
      [] response = "disconnecting" -> "DISCONNECTING"
      [] response = "disconnected" -> "DISCONNECTED"
      [] response = "error" -> "ERROR"
      [] OTHER -> "UNKNOWN"

\* should_retry, without the retry budget
should_retry_unbounded(w) ==
    ~(w.vpn.last_retry_age < w.vpn.retry_interval)

should_retry(w) ==
    IF w.vpn.retry_count >= VPN_MAX_RETRY_ATTEMPTS
    THEN FALSE
    ELSE ~(w.vpn.last_retry_age < w.vpn.retry_interval)

\* vpn_controller_connect without the test for CONNECTING
vpn_controller_connect_unguarded(w, a) ==
    IF ~w.vpn.initialized \/ w.vpn.current_state = "CONNECTED"
    THEN w
    ELSE IF ~send_command_ok(w, a)
         THEN vpn_change_state(send_command(w, a), "ERROR")
         ELSE [vpn_change_state(send_command(w, a), "CONNECTING") EXCEPT
                   !.vpn.operation_age = 0,
                   !.vpn.operation_timeout = VPN_CONNECT_TIMEOUT_MS,
                   !.vpn.operation_pending = TRUE,
                   !.vpn.retry_count = 0,
                   !.vpn.pending_command = "connect",
                   !.obs.vpn_resends = 0,
                   !.obs.vpn_overlap = @ \/ w.vpn.operation_pending]

\* the return value of vpn_controller_connect
vpn_controller_connect_ret(w, a) ==
    IF ~w.vpn.initialized \/ w.vpn.current_state \in {"CONNECTED", "CONNECTING"}
    THEN -1
    ELSE IF ~send_command_ok(w, a) THEN -1 ELSE 0

\* the return value of vpn_controller_disconnect
vpn_controller_disconnect_ret(w, a) ==
    IF ~w.vpn.initialized
    THEN -1
    ELSE IF w.vpn.current_state = "DISCONNECTED"
         THEN 0
         ELSE IF ~send_command_ok(w, a) THEN -1 ELSE 0

vpn_controller_connect(w, a) ==
    IF ~w.vpn.initialized \/ w.vpn.current_state \in {"CONNECTED", "CONNECTING"}
    THEN w
    ELSE IF ~send_command_ok(w, a)
         THEN vpn_change_state(send_command(w, a), "ERROR")
         ELSE [vpn_change_state(send_command(w, a), "CONNECTING") EXCEPT
                   !.vpn.operation_age = 0,
                   !.vpn.operation_timeout = VPN_CONNECT_TIMEOUT_MS,
                   !.vpn.operation_pending = TRUE,
                   !.vpn.retry_count = 0,
                   !.vpn.pending_command = "connect",
                   !.obs.vpn_resends = 0,
                   !.obs.vpn_overlap = @ \/ w.vpn.operation_pending]

\* (obs.api lists the teardown calls of the running step)
vpn_controller_disconnect(w0, a) ==
    LET w == [w0 EXCEPT !.obs.api = Append(@, "vpn_controller_disconnect")] IN
    IF ~w.vpn.initialized \/ w.vpn.current_state = "DISCONNECTED"
    THEN w
    ELSE IF ~send_command_ok(w, a)
         THEN vpn_change_state(send_command(w, a), "ERROR")
         ELSE [vpn_change_state(send_command(w, a), "DISCONNECTING") EXCEPT
                   !.vpn.operation_age = 0,
                   !.vpn.operation_timeout = VPN_COMMAND_TIMEOUT_MS,
                   !.vpn.operation_pending = TRUE,
                   !.vpn.pending_command = "disconnect",
                   !.obs.vpn_resends = 0,
                   !.obs.vpn_overlap = @ \/ w.vpn.operation_pending]

\* the timeout branch of vpn_controller_process
vpn_process_timeout(w, a) ==
    IF should_retry(w)
    THEN LET w1 == [w EXCEPT !.vpn.retry_count = @ + 1,
                             !.vpn.last_retry_age = 0,
                             !.vpn.operation_age = 0,
                             !.obs.vpn_resends = Inc(@, MaxObs)]
         IN  IF ~send_command_ok(w1, a)
             THEN [vpn_change_state(send_command(w1, a), "ERROR") EXCEPT
                       !.vpn.operation_pending = FALSE]
             ELSE send_command(w1, a)
    ELSE [vpn_change_state(w, "ERROR") EXCEPT !.vpn.operation_pending = FALSE]

\* the receive branch ending the operation on any payload
vpn_process_receive_any_payload(w0, a) ==
    LET w == [w0 EXCEPT !.obs.vpn_recvs = Inc(@, MaxObs),
                        !.obs.vpn_token = receive_response(w0, a)]
        received == receive_response(w, a)
        new_state == parse_state_from_response(received)
    IN  CASE received = "fail" ->
                 [vpn_change_state(w, "ERROR") EXCEPT !.vpn.operation_pending = FALSE]
          [] received = "none" -> w
          [] OTHER ->
                 [(IF new_state # "UNKNOWN" THEN vpn_change_state(w, new_state) ELSE w)
                      EXCEPT !.vpn.operation_pending = FALSE,
                             !.vpn.retry_count = 0]

\* the receive branch of vpn_controller_process (obs.vpn_recvs counts the
\* calls of receive_response in the running step, obs.vpn_token is what the
\* last of them returned)
vpn_process_receive(w0, a) ==
    LET w == [w0 EXCEPT !.obs.vpn_recvs = Inc(@, MaxObs),
                        !.obs.vpn_token = receive_response(w0, a)]
        received == receive_response(w, a)
        new_state == parse_state_from_response(received)
    IN  CASE received = "fail" ->
                 [vpn_change_state(w, "ERROR") EXCEPT !.vpn.operation_pending = FALSE]
          [] received = "none" -> w
          [] OTHER ->
                 IF new_state # "UNKNOWN"
                 THEN [vpn_change_state(w, new_state) EXCEPT
                           !.vpn.operation_pending = FALSE,
                           !.vpn.retry_count = 0]
                 ELSE w

\* vpn_controller_process without the test for a pending operation
vpn_controller_process_unconditional(w0, a) ==
    LET w == [w0 EXCEPT !.obs.ticks = Append(@, "vpn_controller_process")] IN
    IF ~w.vpn.initialized
    THEN w
    ELSE IF vpn_is_timeout(w)
         THEN vpn_process_timeout(w, a)
         ELSE vpn_process_receive(w, a)

vpn_controller_process(w0, a) ==
    LET w == [w0 EXCEPT !.obs.ticks = Append(@, "vpn_controller_process")] IN
    IF ~w.vpn.initialized \/ ~w.vpn.operation_pending
    THEN w
    ELSE IF vpn_is_timeout(w)
         THEN vpn_process_timeout(w, a)
         ELSE vpn_process_receive(w, a)

(***************************************************************************)
(* NetworkSessionFSM (websocket_client.c)                                  *)
(***************************************************************************)

\* uint32_t values as pairs <<high 16 bits, low 16 bits>>
U32(n) == <<n \div 65536, n % 65536>>

\* x + x modulo 2^32
U32Double(x) == <<(2 * x[1] + (2 * x[2]) \div 65536) % 65536, (2 * x[2]) % 65536>>

\* x * (1 << k) modulo 2^32, for the shift counts 0..30 that C defines
RECURSIVE U32Shl(_, _)
U32Shl(x, k) == IF k = 0 THEN x ELSE U32Shl(U32Double(x), k - 1)

U32Less(x, y) == x[1] < y[1] \/ (x[1] = y[1] /\ x[2] < y[2])

\* calculate_reconnect_interval with the product kept in 16 bits
calculate_reconnect_interval_16bit(w) ==
    LET interval == U32Shl(U32(w.ws.reconnect_interval), w.ws.reconnect_attempts)[2]
    IN  IF interval > w.ws.max_reconnect_interval
        THEN w.ws.max_reconnect_interval
        ELSE interval

\* calculate_reconnect_interval: reconnect_interval * (1 << reconnect_attempts)
\* in uint32_t, then clamped to max_reconnect_interval
calculate_reconnect_interval(w) ==
    LET interval == U32Shl(U32(w.ws.reconnect_interval), w.ws.reconnect_attempts)
    IN  IF U32Less(U32(w.ws.max_reconnect_interval), interval)
        THEN w.ws.max_reconnect_interval
        ELSE interval[1] * 65536 + interval[2]

\* should_reconnect without the test of the time since the last attempt
should_reconnect_eager(w) ==
    CASE ~w.ws.auto_reconnect -> FALSE
      [] w.ws.reconnect_attempts >= WS_MAX_RECONNECT_ATTEMPTS -> FALSE
      [] OTHER -> TRUE

should_reconnect(w) ==
    CASE ~w.ws.auto_reconnect -> FALSE
      [] w.ws.reconnect_attempts >= WS_MAX_RECONNECT_ATTEMPTS -> FALSE
      [] w.ws.last_reconnect_age < calculate_reconnect_interval(w) -> FALSE
      [] OTHER -> TRUE

\* change_state of the session: the sink of the new state is invoked
\* (obs.ws_sinks lists the sinks invoked in the running step)
ws_change_state(w, new_state) ==
    IF w.ws.current_state = new_state
    THEN w
    ELSE LET w1 == [w EXCEPT !.ws.previous_state = w.ws.current_state,
                             !.ws.current_state = new_state]
             w2 == [w1 EXCEPT !.obs.ws_sinks = Append(@, new_state),
                              !.obs.invoked = Append(@, <<"ws", w.ws.callbacks>>)]
         IN  CASE w.ws.callbacks = 0 -> w1
               [] new_state = "CONNECTED" ->
                      leaf_event(w2, on_ws_connected(w2), "on_ws_connected")
               [] new_state = "DISCONNECTED" -> on_ws_disconnected(w2)
               [] new_state = "ERROR" ->
                      leaf_event(w2, on_ws_error(w2), "on_ws_error")
               [] OTHER -> w1

\* the transport's events, delivered to ws_callback from within lws_service;
\* a RECEIVE carries a payload and its length
WsEvents ==
    [kind : {"NONE", "ESTABLISHED", "WRITEABLE", "CONNECTION_ERROR", "CLOSED", "PONG"},
     payload : {"other"}, len : {0}]
        \cup [kind : {"RECEIVE"}, payload : WsPayloads, len : {64}]
        \cup [kind : {"RECEIVE"}, payload : {"other"}, len : {0, WS_MAX_MESSAGE_SIZE}]

\* the events the transport can deliver for the session as it stands: the
\* outcome of an attempt while one is under way; on an open session a close,
\* a message, a pong when a ping is outstanding and the writeable callback
\* when ws_client_send has asked for it
WsEventsOf(w) ==
    CASE w.env.link = "connecting" ->
             {e \in WsEvents : e.kind \in {"NONE", "ESTABLISHED", "CONNECTION_ERROR"}}
      [] w.env.link = "open" ->
             {e \in WsEvents :
                  \/ e.kind \in {"NONE", "CLOSED", "RECEIVE"}
                  \/ e.kind = "PONG" /\ w.ws.waiting_for_pong
                  \/ e.kind = "WRITEABLE" /\ w.ws.send_buffer_len > 0}
      [] OTHER -> {e \in WsEvents : e.kind = "NONE"}

\* what happens during one ws_client_service: the event delivered, whether a
\* connection attempt can be started, and whether the millisecond clock
\* advances between the two readings of the heartbeat code
WsInputs(w) ==
    [ev : WsEventsOf(w),
     conn : IF w.ws.auto_reconnect THEN BOOLEAN ELSE {TRUE},
     ticked : IF w.ws.last_ping_age >= w.ws.ping_interval THEN BOOLEAN ELSE {FALSE}]

ws_callback(w, ev) ==
    CASE ev.kind = "ESTABLISHED" ->
             [ws_change_state([w EXCEPT !.env.link = "open", !.env.asked = FALSE],
                              "CONNECTED") EXCEPT
                  !.obs.ws_attempts = 0,
                  !.ws.reconnect_attempts = 0,
                  !.ws.last_ping_age = 0]
      [] ev.kind = "RECEIVE" ->
             IF ev.len > 0 /\ ev.len < WS_MAX_MESSAGE_SIZE
             THEN IF w.ws.callbacks # 0
                  THEN leaf_event(w, on_ws_message(
                                         [w EXCEPT !.env.asked = FALSE,
                                                   !.obs.invoked =
                                                       Append(@, <<"ws", w.ws.callbacks>>)],
                                         ev.payload),
                                  "on_ws_message")
                  ELSE [w EXCEPT !.env.asked = FALSE]
             ELSE [w EXCEPT !.env.asked = FALSE]
      [] ev.kind = "WRITEABLE" ->
             IF w.ws.send_buffer_len > 0
             THEN [w EXCEPT !.ws.send_buffer_len = 0, !.env.asked = TRUE]
             ELSE w
      [] ev.kind = "CONNECTION_ERROR" ->
             ws_change_state([w EXCEPT !.env.link = "none"], "ERROR")
      [] ev.kind = "CLOSED" ->
             [ws_change_state([w EXCEPT !.env.link = "none"], "DISCONNECTED") EXCEPT
                  !.ws.ws_connection = FALSE]
      [] ev.kind = "PONG" -> [w EXCEPT !.ws.waiting_for_pong = FALSE]
      [] OTHER -> w

\* attempt_connect: lws_client_connect_via_info gives a connection or NULL
\* (obs.ws_opens counts the calls of the transport in the running step)
attempt_connect(w, conn) ==
    [w EXCEPT !.ws.ws_connection = conn,
              !.env.link = IF conn THEN "connecting" ELSE "none",
              !.obs.ws_opens = Inc(@, MaxObs)]

ws_client_connect_ok(w, conn) ==
    /\ w.ws.initialized
    /\ w.ws.current_state \notin {"CONNECTED", "CONNECTING"}
    /\ conn

\* ws_client_connect without the test for CONNECTING
ws_client_connect_reopen(w, conn) ==
    IF ~w.ws.initialized \/ w.ws.current_state = "CONNECTED"
    THEN w
    ELSE LET w1 == attempt_connect(ws_change_state(w, "CONNECTING"), conn)
         IN  IF ~conn
             THEN ws_change_state(w1, "ERROR")
             ELSE [w1 EXCEPT !.ws.last_reconnect_age = 0]

ws_client_connect(w, conn) ==
    IF ~w.ws.initialized \/ w.ws.current_state \in {"CONNECTED", "CONNECTING"}
    THEN w
    ELSE LET w1 == attempt_connect(ws_change_state(w, "CONNECTING"), conn)
         IN  IF ~conn
             THEN ws_change_state(w1, "ERROR")
             ELSE [w1 EXCEPT !.ws.last_reconnect_age = 0]

\* ws_client_send accepting a message of WS_MAX_MESSAGE_SIZE characters
ws_client_send_ok_inclusive(w, message) ==
    /\ w.ws.initialized /\ ~message.null
    /\ w.ws.current_state = "CONNECTED"
    /\ message.len <= WS_MAX_MESSAGE_SIZE

ws_client_send_ok(w, message) ==
    /\ w.ws.initialized /\ ~message.null
    /\ w.ws.current_state = "CONNECTED"
    /\ ~(message.len >= WS_MAX_MESSAGE_SIZE)

ws_client_send(w, message) ==
    IF ws_client_send_ok(w, message)
    THEN [w EXCEPT !.ws.send_buffer_len = message.len]
    ELSE w

\* ws_client_disconnect leaving auto_reconnect as it is
ws_client_disconnect_keep_auto(w0) ==
    LET w == [w0 EXCEPT !.obs.api = Append(@, "ws_client_disconnect")] IN
    IF ~w.ws.initialized
    THEN w
    ELSE ws_change_state([w EXCEPT !.ws.ws_connection = FALSE,
                                   !.env.link = IF w.ws.ws_connection THEN "none" ELSE @],
                         "DISCONNECTED")

ws_client_disconnect(w0) ==
    LET w == [w0 EXCEPT !.obs.api = Append(@, "ws_client_disconnect")] IN
    IF ~w.ws.initialized
    THEN w
    ELSE [ws_change_state([w EXCEPT !.ws.ws_connection = FALSE,
                                    !.env.link = IF w.ws.ws_connection THEN "none" ELSE @],
                          "DISCONNECTED")
             EXCEPT !.ws.auto_reconnect = FALSE]

ws_client_set_auto_reconnect(w, enable) == [w EXCEPT !.ws.auto_reconnect = enable]

\* (obs.pings counts the pings written in the running step)
send_ping(w) ==
    [w EXCEPT !.ws.waiting_for_pong = IF w.ws.ws_connection THEN TRUE ELSE @,
              !.ws.last_ping_age = 0,
              !.obs.pings = IF w.ws.ws_connection THEN Inc(@, MaxObs) ELSE @]

\* the reconnection part of ws_client_service (obs.ws_attempts counts the
\* attempts it has started since the transport last reported a connect)
ws_service_reconnect(w, conn) ==
    IF w.ws.current_state \in {"DISCONNECTED", "ERROR"} /\ should_reconnect(w)
    THEN LET w1 == [w EXCEPT !.ws.reconnect_attempts = @ + 1,
                             !.ws.last_reconnect_age = 0,
                             !.obs.ws_attempts = Inc(@, MaxAttempts)]
         IN  IF ws_client_connect_ok(w1, conn)
             THEN ws_client_connect(w1, conn)
             ELSE ws_change_state(ws_client_connect(w1, conn), "ERROR")
    ELSE w

\* the heartbeat part of ws_client_service.  current_time is read before
\* send_ping stores a later reading in last_ping_time; when the clock has
\* advanced in between, current_time - last_ping_time wraps to a huge value
\* (a saturated age).  obs.forced records that the pong timeout closed the
\* session in the running step.
ws_service_heartbeat(w, ticked) ==
    IF w.ws.current_state # "CONNECTED"
    THEN w
    ELSE LET pinged == w.ws.last_ping_age >= w.ws.ping_interval
             w1 == IF pinged THEN send_ping(w) ELSE w
             since_ping == IF pinged
                           THEN (IF ticked THEN WS_PING_INTERVAL_MS ELSE 0)
                           ELSE w.ws.last_ping_age
         IN  IF w1.ws.waiting_for_pong /\ since_ping >= WS_PING_TIMEOUT_MS
             THEN ws_client_disconnect([w1 EXCEPT !.obs.forced = TRUE])
             ELSE w1

ws_client_service(w0, i) ==
    LET w == [w0 EXCEPT !.obs.ticks = Append(@, "ws_client_service")] IN
    IF ~w.ws.initialized
    THEN w
    ELSE ws_service_heartbeat(ws_service_reconnect(ws_callback(w, i.ev), i.conn), i.ticked)

(***************************************************************************)
(* Orchestrator: state handlers and client_sm_update                       *)
(* (client_state_machine.c)                                                *)
(***************************************************************************)

\* update_led_for_ps5_status (production build): the dwell starts
update_led_for_ps5_status(w) ==
    [w EXCEPT !.cli.led_update_age = 0, !.cli.led_update_done = FALSE,
              !.obs.led_calls = Inc(@, MaxObs)]

handle_idle_state(w) == w

handle_vpn_connecting_state(w) ==
    LET w1 == [w EXCEPT !.obs.vc_ran = TRUE]
    IN  CASE w1.vpn.current_state = "CONNECTED" ->
                 [client_change_state(w1, "VPN_CONNECTED") EXCEPT
                      !.cli.stats.vpn_connect_count = Inc(@, MaxStat)]
          [] w1.vpn.current_state = "ERROR" ->
                 client_change_state(report_error(w1, "VPN_FAILED"), "ERROR")
          [] OTHER ->
                 IF is_state_timeout(w1)
                 THEN client_change_state(report_error(w1, "VPN_TIMEOUT"), "ERROR")
                 ELSE w1

\* conn: whether the transport can start a connection attempt
handle_vpn_connected_state(w, conn) ==
    IF w.ws.current_state \notin {"CONNECTED", "CONNECTING"}
    THEN IF ws_client_connect_ok(w, conn)
         THEN client_change_state(ws_client_connect(w, conn), "WS_CONNECTING")
         ELSE client_change_state(report_error(ws_client_connect(w, conn), "WS_FAILED"),
                                  "ERROR")
    ELSE w

handle_ws_connecting_state(w) ==
    CASE w.ws.current_state = "CONNECTED" -> w
      [] w.ws.current_state = "ERROR" ->
             client_change_state(report_error(w, "WS_FAILED"), "ERROR")
      [] OTHER ->
             IF is_state_timeout(w)
             THEN client_change_state(report_error(w, "WS_TIMEOUT"), "ERROR")
             ELSE w

\* the end of handle_querying_ps5_state: the deadline of the query
querying_check_timeout(w) ==
    IF is_state_timeout(w)
    THEN [client_change_state(report_error(w, "PS5_TIMEOUT"), "ERROR") EXCEPT
              !.cli.query_sent = FALSE,
              !.cli.stats.failed_queries = Inc(@, MaxStat)]
    ELSE w

\* handle_querying_ps5_state: query_sent is a static of the function, so it
\* keeps its value from one stay in the state to the next; the query is the
\* 20 characters {"type":"query_ps5"}
handle_querying_ps5_state(w) ==
    LET w1 == [w EXCEPT !.obs.q_ran = TRUE]
    IN  IF ~w1.cli.query_sent
        THEN IF ws_client_send_ok(w1, Message(20))
             THEN querying_check_timeout(
                      [ws_client_send(w1, Message(20)) EXCEPT !.cli.query_sent = TRUE,
                                                      !.obs.q_calls = Inc(@, MaxObs)])
             ELSE [client_change_state(report_error(w1, "PS5_FAILED"), "ERROR") EXCEPT
                       !.cli.query_sent = FALSE]
        ELSE querying_check_timeout(w1)

handle_led_update_state(w) ==
    LET w0 == [w EXCEPT !.obs.led_ran = TRUE]
        w1 == IF ~w0.cli.led_update_done
              THEN [update_led_for_ps5_status(w0) EXCEPT !.cli.led_update_done = TRUE]
              ELSE w0
    IN  IF w1.cli.led_update_age >= CLIENT_LED_UPDATE_DURATION_S * 1000
        THEN client_change_state(w1, "WAITING")
        ELSE w1

\* a: what the agent's socket does during the disconnect command
handle_waiting_state(w, a) ==
    client_change_state(vpn_controller_disconnect(ws_client_disconnect(w), a), "CLEANUP")

(***************************************************************************)
(* Initial state: client_sm_create and client_sm_init have run, so the     *)
(* three leaf modules are initialised and their sinks are the              *)
(* orchestrator's callbacks.                                               *)
(***************************************************************************)

\* button_handler_init
InitBtn(debounce_arg) ==
    [initialized |-> TRUE,
     debounce_ms |-> InitDebounce(debounce_arg),
     long_press_threshold_ms |-> BUTTON_LONG_PRESS_THRESHOLD_MS,
     current_state |-> "IDLE",
     stable_count |-> 0,
     long_press_triggered |-> FALSE,
     press_start_age |-> 0]

\* g_vpn_ctx after vpn_controller_init.  last_retry_time is still the static
\* initialiser 0, so its age is the clock's reading, which is arbitrary.
InitVpn(last_retry_age) ==
    [initialized |-> TRUE,
     sockfd |-> -1,
     current_state |-> "DISCONNECTED",
     previous_state |-> "UNKNOWN",
     retry_count |-> 0,
     last_retry_age |-> last_retry_age,
     retry_interval |-> VPN_RETRY_INTERVAL_MS,
     operation_age |-> 0,
     operation_timeout |-> 0,
     operation_pending |-> FALSE,
     pending_command |-> "",
     callback |-> 1]

\* g_ws_ctx after ws_client_init: auto_reconnect is the static initialiser
\* true, last_reconnect_time the static initialiser 0 (an arbitrary age).
InitWs(last_reconnect_age) ==
    [initialized |-> TRUE,
     current_state |-> "DISCONNECTED",
     previous_state |-> "DISCONNECTED",
     auto_reconnect |-> TRUE,
     reconnect_attempts |-> 0,
     reconnect_interval |-> WS_RECONNECT_INTERVAL_MS,
     max_reconnect_interval |-> WS_MAX_RECONNECT_INTERVAL_MS,
     last_reconnect_age |-> last_reconnect_age,
     last_ping_age |-> 0,
     ping_interval |-> WS_PING_INTERVAL_MS,
     waiting_for_pong |-> FALSE,
     ws_connection |-> FALSE,
     send_buffer_len |-> 0,
     callbacks |-> 1]

\* the context after client_sm_create (memset 0) and client_sm_init; query_sent
\* is the function-local static of handle_querying_ps5_state
InitCli(auto_retry) ==
    [initialized |-> TRUE,
     current_state |-> "IDLE",
     previous_state |-> "IDLE",
     config |-> [auto_retry |-> auto_retry,
                 max_retry_attempts |-> DEFAULT_MAX_RETRY_ATTEMPTS],
     ps5_status |-> "UNKNOWN",
     stats |-> ZeroStats,
     state_enter_age |-> 0,
     current_timeout |-> 0,
     last_error |-> "NONE",
     error_count |-> 0,
     led_update_done |-> FALSE,
     led_update_age |-> CLIENT_LED_UPDATE_DURATION_S * 1000,
     query_sent |-> FALSE]

\* the transport's session: none, connecting or open, and whether a message
\* written to it is still to be answered by the server
InitEnv == [link |-> "none", asked |-> FALSE, polled |-> FALSE]

InitObs ==
    [state_calls |-> <<>>, error_calls |-> <<>>,
     q_calls |-> 0, q_ran |-> FALSE, vc_ran |-> FALSE, unanswered |-> FALSE,
     led_calls |-> 0, led_ran |-> FALSE, vpn_overlap |-> FALSE, msg |-> <<>>,
     vpn_sends |-> 0, call |-> "", ret |-> 0, arg |-> NullMessage,
     ws_sinks |-> <<>>, ws_opens |-> 0, ws_attempts |-> 0,
     pings |-> 0, forced |-> FALSE, api |-> <<>>, handlers |-> <<>>,
     ticks |-> <<>>, serviced |-> "", events |-> <<>>,
     invoked |-> <<>>, retired |-> {}, regs |-> 1, module |-> "", vpn_recvs |-> 0,
     vpn_token |-> "",
     btn_lows |-> 0, btn_short |-> 0, btn_long |-> 0,
     btn_pressed_after |-> 0, btn_released_early |-> FALSE,
     btn_held_past |-> FALSE, btn_aborted |-> FALSE,
     vpn_resends |-> 0, vpn_spent |-> FALSE, presses |-> 0, faults |-> 0,
     cleanup_from |-> ""]

InitWorld(debounce_arg, auto_retry, last_retry_age, last_reconnect_age) ==
    /\ btn = InitBtn(debounce_arg)
    /\ vpn = InitVpn(last_retry_age)
    /\ ws = InitWs(last_reconnect_age)
    /\ cli = InitCli(auto_retry)
    /\ env = InitEnv
    /\ obs = InitObs

(***************************************************************************)
(* The passing of time                                                     *)
(***************************************************************************)
\* the per-state deadline client_sm_update sets before it runs the handler
StateTimeout(state) ==
    CASE state = "VPN_CONNECTING" -> CLIENT_VPN_CONNECT_TIMEOUT_S * 1000
      [] state = "WS_CONNECTING" -> CLIENT_WS_CONNECT_TIMEOUT_S * 1000
      [] state = "QUERYING_PS5" -> CLIENT_PS5_QUERY_TIMEOUT_S * 1000
      [] OTHER -> 0

\* The threshold an age is compared with before the code next stores "now"
\* in its instant.  An age that is not read before then (the press start
\* while no press is held, the operation start while nothing is pending, the
\* state entry of a state without a deadline, the last ping while the session
\* is not CONNECTED) is kept at the threshold.
PressAgeCap(w) ==
    IF w.btn.current_state = "PRESSED" THEN w.btn.long_press_threshold_ms ELSE 0

OperationAgeCap(w) ==
    IF w.vpn.operation_pending THEN w.vpn.operation_timeout ELSE 0

ReconnectAgeCap(w) ==
    IF w.ws.reconnect_attempts < WS_MAX_RECONNECT_ATTEMPTS
    THEN calculate_reconnect_interval(w)
    ELSE 0

PingAgeCap(w) ==
    IF w.ws.current_state = "CONNECTED" THEN w.ws.ping_interval ELSE 0

StateAgeCap(w) == StateTimeout(w.cli.current_state)

Elapse(w, dt) ==
    [w EXCEPT !.btn.press_start_age = Age(@, dt, PressAgeCap(w)),
              !.vpn.last_retry_age = Age(@, dt, w.vpn.retry_interval),
              !.vpn.operation_age = Age(@, dt, OperationAgeCap(w)),
              !.ws.last_reconnect_age = Age(@, dt, ReconnectAgeCap(w)),
              !.ws.last_ping_age = Age(@, dt, PingAgeCap(w)),
              !.cli.state_enter_age = Age(@, dt, StateAgeCap(w)),
              !.cli.led_update_age = Age(@, dt, CLIENT_LED_UPDATE_DURATION_S * 1000)]

(***************************************************************************)
(* Orchestrator: the blocking states and client_sm_update                  *)
(***************************************************************************)

\* handle_error_state: both branches sleep inside the handler, so the clock
\* of every module advances before the state changes
\* handle_error_state without the report of the exhausted retries
handle_error_state_quiet(w) ==
    IF w.cli.error_count < w.cli.config.max_retry_attempts /\ w.cli.config.auto_retry
    THEN client_change_state(Elapse(w, CLIENT_RETRY_INTERVAL_S * 1000), "CLEANUP")
    ELSE client_change_state(Elapse(w, ERROR_FINAL_SLEEP_S * 1000), "CLEANUP")

handle_error_state(w) ==
    IF w.cli.error_count < w.cli.config.max_retry_attempts /\ w.cli.config.auto_retry
    THEN client_change_state(Elapse(w, CLIENT_RETRY_INTERVAL_S * 1000), "CLEANUP")
    ELSE client_change_state(
             Elapse(report_error(w, "MAX_RETRIES"), ERROR_FINAL_SLEEP_S * 1000),
             "CLEANUP")

\* handle_cleanup_state resetting the error count whatever the last error
handle_cleanup_state_reset(w, a) ==
    LET w1 == vpn_controller_disconnect(ws_client_disconnect(w), a)
    IN  client_change_state([w1 EXCEPT !.cli.error_count = 0], "IDLE")

\* handle_cleanup_state forgetting the last error on the way to IDLE
handle_cleanup_state_clear_error(w, a) ==
    LET w1 == vpn_controller_disconnect(ws_client_disconnect(w), a)
        w2 == IF w1.cli.last_error = "NONE" THEN [w1 EXCEPT !.cli.error_count = 0] ELSE w1
    IN  client_change_state([w2 EXCEPT !.cli.last_error = "NONE"], "IDLE")

handle_cleanup_state(w, a) ==
    LET w1 == vpn_controller_disconnect(ws_client_disconnect(w), a)
        w2 == IF w1.cli.last_error = "NONE" THEN [w1 EXCEPT !.cli.error_count = 0] ELSE w1
    IN  client_change_state(w2, "IDLE")

\* the handler switch of client_sm_update (obs.handlers lists the handlers
\* run in the running step)
handle_current_state(w0, i) ==
    LET state == w0.cli.current_state
        ran(h) == [w0 EXCEPT !.obs.handlers = Append(@, h),
                             !.obs.ticks = Append(@, "handler")]
    IN  CASE state = "IDLE" -> handle_idle_state(ran("IDLE"))
          [] state = "VPN_CONNECTING" -> handle_vpn_connecting_state(ran("VPN_CONNECTING"))
          [] state = "VPN_CONNECTED" -> handle_vpn_connected_state(ran("VPN_CONNECTED"), i.hconn)
          [] state = "WS_CONNECTING" -> handle_ws_connecting_state(ran("WS_CONNECTING"))
          [] state = "QUERYING_PS5" -> handle_querying_ps5_state(ran("QUERYING_PS5"))
          [] state = "LED_UPDATE" -> handle_led_update_state(ran("LED_UPDATE"))
          [] state = "WAITING" -> handle_waiting_state(ran("WAITING"), i.hsend)
          [] state = "ERROR" -> handle_error_state(ran("ERROR"))
          [] state = "CLEANUP" -> handle_cleanup_state(ran("CLEANUP"), i.hsend)
          [] OTHER -> w0

\* the switch of client_sm_update that sets the deadline of the current state
\* (obs.serviced is the state the leaf modules' callbacks have left)
set_current_timeout(w) ==
    [w EXCEPT !.cli.current_timeout = StateTimeout(w.cli.current_state),
              !.obs.serviced = w.cli.current_state]

\* client_sm_update running the handler before the leaf modules are ticked
client_sm_update_handler_first(w, i) ==
    IF ~w.cli.initialized
    THEN w
    ELSE ws_client_service(
             vpn_controller_process(
                 button_handler_process(
                     handle_current_state(set_current_timeout(w), i),
                     i.gpio),
                 i.agent),
             i.ws)

\* client_sm_update: the three leaf modules are ticked, the deadline of the
\* current state is set, and the handler of the current state runs
client_sm_update(w, i) ==
    IF ~w.cli.initialized
    THEN w
    ELSE handle_current_state(
             set_current_timeout(
                 ws_client_service(
                     vpn_controller_process(
                         button_handler_process(w, i.gpio),
                         i.agent),
                     i.ws)),
             i)

(***************************************************************************)
(* SpecButton: the ButtonFSM alone, sampled by button_handler_process      *)
(***************************************************************************)

\* debounce durations given to button_handler_init (0 and negatives select
\* the default)
DebounceArgs == {0, 5, 10, 20, 35, 50}

\* time between two samples, in milliseconds: one grain of the model's button
\* clock (a whole number of poll intervals), or a late sample
ButtonSteps == {ButtonGrain, 4 * ButtonGrain}

InitButton ==
    \E d \in DebounceArgs :
        InitWorld(d, TRUE, VPN_RETRY_INTERVAL_MS, WS_RECONNECT_INTERVAL_MS)

ButtonTimePasses ==
    \E dt \in ButtonSteps : Commit(Elapse(BeginStep(World), dt))

ButtonProcess ==
    \E current_value \in GpioValues :
        LET w0 == ObserveSample(BeginStep(World), current_value)
            w1 == button_handler_process(w0, current_value)
        IN  Commit(ObservePress(w0, w1, current_value))

NextButton == ButtonTimePasses \/ ButtonProcess

SpecButton == InitButton /\ [][NextButton]_vars

BtnDown == btn.current_state \in {"PRESSED", "LONG_DETECTED"}

\* C8: a press that reached PRESSED and is sampled pressed at or after the
\* long-press threshold yields exactly one LONG_PRESS and no SHORT_PRESS; one
\* released before the threshold yields exactly one SHORT_PRESS and no
\* LONG_PRESS; no press yields more than one event, and the release from
\* LONG_DETECTED emits nothing.
C8_OneEventPerPress ==
    /\ obs.btn_short + obs.btn_long <= 1
    /\ obs.btn_held_past => (obs.btn_long = 1 /\ obs.btn_short = 0)
    /\ obs.btn_released_early => (obs.btn_short = 1 /\ obs.btn_long = 0)
    /\ btn.current_state = "LONG_DETECTED" => (obs.btn_long = 1 /\ obs.btn_short = 0)
    /\ btn.current_state = "PRESSED" => (obs.btn_long = 0 /\ obs.btn_short = 0)

\* a press held past the threshold has been released again
C8_Witness ==
    /\ obs.btn_held_past
    /\ btn.current_state = "IDLE"
    /\ obs.btn_long = 1
    /\ obs.btn_lows = 0

\* the claim's required_stable
ClaimedRequiredStable(debounce_ms) == Max(1, debounce_ms \div BUTTON_POLL_INTERVAL_MS)

\* C9: PRESSED is reached, and an event emitted, only by a run of at least
\* required_stable = max(1, debounce_ms / 10) consecutive pressed samples, for
\* every debounce_ms; a debounce attempt counts only the pressed samples of its
\* own run (it starts from zero).
C9_ShortRunsNeverPress ==
    /\ BtnDown => obs.btn_lows >= ClaimedRequiredStable(btn.debounce_ms)
    /\ (BtnDown \/ obs.btn_short + obs.btn_long > 0) =>
           obs.btn_pressed_after >= ClaimedRequiredStable(btn.debounce_ms)
    /\ btn.current_state = "DEBOUNCING" => btn.stable_count + 1 = obs.btn_lows

\* a second debounce attempt, after an aborted one, is under way
C9_Witness ==
    /\ obs.btn_aborted
    /\ btn.current_state = "DEBOUNCING"
    /\ obs.btn_lows = 1
    /\ btn.stable_count = 0
    /\ btn.debounce_ms = 35
    /\ cli.stats.button_press_count = 0
    /\ obs.btn_pressed_after = 0

\* C10 as claimed: with debounce 50 ms and poll interval 10 ms the FSM is in
\* PRESSED after the 5th consecutive pressed sample from IDLE and not earlier.
C10_Claimed ==
    btn.debounce_ms = 50 => (BtnDown <=> obs.btn_lows >= 5)

\* C10 as amended: the first pressed sample only moves IDLE to DEBOUNCING and is
\* not counted, so the FSM is in PRESSED after the 6th consecutive pressed
\* sample from IDLE (the 5th counted in DEBOUNCING) and not earlier.
C10_SixthSamplePresses ==
    btn.debounce_ms = 50 =>
        /\ BtnDown <=> obs.btn_lows >= 6
        /\ btn.current_state = "DEBOUNCING" <=> obs.btn_lows \in 1..5

C10_Witness ==
    /\ btn.debounce_ms = 50
    /\ btn.current_state = "PRESSED"
    /\ obs.btn_lows = 6

(***************************************************************************)
(* SpecVpn: the ControlChannelFSM alone, driven through its public API     *)
(* against an agent that may answer, stay silent or fail                   *)
(***************************************************************************)
VpnSteps == {VpnGrain, 5 * VpnGrain}

InitVpnAlone ==
    \E last_retry_age \in {0, VPN_RETRY_INTERVAL_MS} :
        InitWorld(BUTTON_DEFAULT_DEBOUNCE_MS, TRUE, last_retry_age,
                  WS_RECONNECT_INTERVAL_MS)

\* whether the call finds a pending operation timed out with the budget spent
VpnBudgetSpent(w) ==
    /\ w.vpn.operation_pending
    /\ vpn_is_timeout(w)
    /\ w.vpn.retry_count >= VPN_MAX_RETRY_ATTEMPTS

VpnTimePasses ==
    \E dt \in VpnSteps :
        Commit([Elapse(BeginStep(World), dt) EXCEPT !.obs.vpn_spent = FALSE, !.obs.call = ""])

VpnConnect ==
    \E a \in SendInputs :
        Commit([vpn_controller_connect(BeginStep(World), a) EXCEPT
                    !.obs.vpn_spent = FALSE,
                    !.obs.module = "vpn",
                    !.obs.call = "connect",
                    !.obs.ret = vpn_controller_connect_ret(World, a)])

VpnDisconnect ==
    \E a \in SendInputs :
        Commit([vpn_controller_disconnect(BeginStep(World), a) EXCEPT
                    !.obs.vpn_spent = FALSE,
                    !.obs.module = "vpn",
                    !.obs.call = "disconnect",
                    !.obs.ret = vpn_controller_disconnect_ret(World, a)])

VpnProcess ==
    \E a \in AgentInputs :
        Commit([vpn_controller_process(BeginStep(World), a) EXCEPT
                    !.obs.vpn_spent = VpnBudgetSpent(World),
                    !.obs.module = "vpn",
                    !.obs.call = "", !.obs.ret = 0])

NextVpn == VpnTimePasses \/ VpnConnect \/ VpnDisconnect \/ VpnProcess

SpecVpn == InitVpnAlone /\ [][NextVpn]_vars

\* C6: a pending command is re-sent at most VPN_MAX_RETRY_ATTEMPTS (3) times;
\* the call that finds it timed out with the budget spent leaves the FSM in
\* ERROR with nothing pending; the retry counter never exceeds 3.
C6_RetryBudget ==
    /\ vpn.retry_count <= VPN_MAX_RETRY_ATTEMPTS
    /\ obs.vpn_resends <= VPN_MAX_RETRY_ATTEMPTS
    /\ obs.vpn_resends <= vpn.retry_count \/ ~vpn.operation_pending
    /\ obs.vpn_spent => (vpn.current_state = "ERROR" /\ ~vpn.operation_pending)

\* the budget of a connect was spent by three re-sends and the next timeout
\* ended the operation
C6_Witness ==
    /\ obs.vpn_spent
    /\ obs.vpn_resends = VPN_MAX_RETRY_ATTEMPTS
    /\ vpn.retry_count = VPN_MAX_RETRY_ATTEMPTS
    /\ vpn.pending_command = "connect"
    /\ vpn.current_state = "ERROR"

(***************************************************************************)
(* SpecWs: the NetworkSessionFSM alone, driven through its public API over *)
(* a transport that may open, fail, close, deliver and answer pings        *)
(***************************************************************************)
WsSteps == {WsGrain, 6 * WsGrain}

\* lengths of the messages handed to ws_client_send
SendLengths == {WS_MAX_MESSAGE_SIZE - 1, WS_MAX_MESSAGE_SIZE}

\* the messages handed to ws_client_send
SendMessages == {NullMessage} \cup {Message(len) : len \in SendLengths}

\* the session before ws_client_init (the static initialiser of g_ws_ctx) or
\* after it
InitWsAlone ==
    \E last_reconnect_age \in {0, WS_RECONNECT_INTERVAL_MS}, initialized \in BOOLEAN :
        /\ btn = InitBtn(BUTTON_DEFAULT_DEBOUNCE_MS)
        /\ vpn = InitVpn(VPN_RETRY_INTERVAL_MS)
        /\ ws = [InitWs(last_reconnect_age) EXCEPT
                     !.initialized = initialized,
                     !.callbacks = IF initialized THEN 1 ELSE 0]
        /\ cli = InitCli(TRUE)
        /\ env = InitEnv
        /\ obs = InitObs

WsTimePasses ==
    \E dt \in WsSteps :
        Commit([Elapse(BeginStep(World), dt) EXCEPT !.obs.call = "", !.obs.ret = 0,
                                         !.obs.arg = NullMessage])

WsConnect ==
    \E conn \in BOOLEAN :
        Commit([ws_client_connect(BeginStep(World), conn) EXCEPT
                    !.obs.module = "ws",
                    !.obs.call = "connect",
                    !.obs.ret = IF ws_client_connect_ok(World, conn) THEN 0 ELSE -1])

WsSend ==
    \E message \in SendMessages :
        Commit([ws_client_send(BeginStep(World), message) EXCEPT
                    !.obs.module = "ws",
                    !.obs.call = "send",
                    !.obs.ret = IF ws_client_send_ok(World, message) THEN 0 ELSE -1,
                    !.obs.arg = message])

WsService ==
    \E i \in WsInputs(World) :
        Commit([ws_client_service(BeginStep(World), i) EXCEPT
                    !.obs.module = "ws", !.obs.call = "service"])

WsDisconnect ==
    Commit([ws_client_disconnect(BeginStep(World)) EXCEPT
                !.obs.module = "ws", !.obs.call = "disconnect"])

WsSetAutoReconnect ==
    \E enable \in BOOLEAN :
        Commit([ws_client_set_auto_reconnect(BeginStep(World), enable) EXCEPT
                    !.obs.module = "ws", !.obs.call = "set_auto_reconnect"])

NextWs ==
    \/ WsTimePasses
    \/ WsConnect
    \/ WsSend
    \/ WsService
    \/ WsDisconnect
    \/ WsSetAutoReconnect

SpecWs == InitWsAlone /\ [][NextWs]_vars

\* the interval calculate_reconnect_interval gives at an attempt count
IntervalAt(attempts) ==
    calculate_reconnect_interval([World EXCEPT !.ws.reconnect_attempts = attempts])

\* the product reconnect_interval * (1 << attempts) as uint32_t arithmetic gives it
ProductAt(attempts) ==
    LET p == U32Shl(U32(ws.reconnect_interval), attempts)
    IN  IF p[1] >= 32768 THEN -1 ELSE p[1] * 65536 + p[2]

AgentInputsOf(w) ==
    CASE ~w.vpn.operation_pending -> {a \in SendInputs : a.conn /\ a.send}
      [] vpn_is_timeout(w) -> {a \in SendInputs : a.conn \/ w.vpn.sockfd < 0}
      [] OTHER -> {a \in AgentInputs : a.conn /\ a.send}

\* ... and during the disconnect command of the WAITING and CLEANUP handlers
HandlerSendInputsOf(w) ==
    IF w.cli.current_state \in {"WAITING", "CLEANUP"} /\ w.vpn.current_state # "DISCONNECTED"
    THEN {a \in SendInputs : a.conn \/ w.vpn.sockfd < 0}
    ELSE {a \in SendInputs : a.conn /\ a.send}

\* the failures among an agent input: a failed connect or send, a failed
\* receive, a reply reporting an error or not understood
AgentFaults(a) ==
    (IF a.conn /\ a.send THEN 0 ELSE 1) + (IF a.recv \in {"fail", "error", "garbled"} THEN 1 ELSE 0)

\* the failures among a session input: a connection refused or lost, a
\* message of no usable length or that answers nothing, an attempt that
\* cannot start, a clock reading that falls between the two of the heartbeat
WsFaults(w, i) ==
    (IF i.ev.kind \in {"CONNECTION_ERROR", "CLOSED"} THEN 1 ELSE 0)
        + (IF i.ev.kind = "RECEIVE" /\ (i.ev.len # 64 \/ ~w.env.asked) THEN 1 ELSE 0)
        + (IF i.conn THEN 0 ELSE 1) + (IF i.ticked THEN 1 ELSE 0)

UpdateFaults(w, i) ==
    AgentFaults(i.agent) + WsFaults(w, i.ws) + AgentFaults(i.hsend) + (IF i.hconn THEN 0 ELSE 1)

\* everything the environment decides during one client_sm_update
UpdateInputsAll(w) ==
    {i \in [gpio : IF w.obs.presses < MaxPresses \/ w.btn.current_state # "IDLE"
                   THEN {0, 1} ELSE {1},
            agent : AgentInputsOf(w),
            ws : WsInputs(w),
            hconn : IF w.cli.current_state = "VPN_CONNECTED" THEN BOOLEAN ELSE {TRUE},
            hsend : HandlerSendInputsOf(w)] :
        w.obs.faults + UpdateFaults(w, i) <= MaxFaults}

\* ... with the messages of the whole client limited to two payloads
UpdateInputs(w) == {i \in UpdateInputsAll(w) : i.ws.ev.payload \in {"on", "other"}}

\* the observations of the button's presses and of the leaf modules'
\* registrations are not kept in the whole client
ForgetPress(w) ==
    [w EXCEPT !.obs.btn_lows = 0, !.obs.btn_short = 0, !.obs.btn_long = 0,
              !.obs.invoked = <<>>, !.obs.vpn_recvs = 0,
              !.obs.vpn_token = ""]

\* the agent stays silent during this update: nothing fails, nothing arrives
AgentSilent(i) == i.agent.conn /\ i.agent.send /\ i.agent.recv = "none"

\* the configuration is the default one (auto_retry enabled); SpecRetry and
\* SpecHistory read other values from the configuration file
Init ==
    \E auto_retry \in {TRUE} :
        InitWorld(BUTTON_POLL_INTERVAL_MS, auto_retry, VPN_RETRY_INTERVAL_MS,
                  WS_RECONNECT_INTERVAL_MS)

\* a grain of time passes (env.polled: client_sm_update has run since)
TimePasses == Commit([Elapse(BeginStep(World), Grain) EXCEPT !.env.polled = FALSE, !.obs.call = ""])

\* one call of client_sm_update with the environment's decisions i
UpdateWith(i) ==
    LET w1 == client_sm_update(BeginStep(World), i)
    IN  Commit(ForgetPress([w1 EXCEPT !.obs.unanswered = @ /\ AgentSilent(i),
                                      !.obs.faults = @ + UpdateFaults(World, i),
                                      !.env.polled = TRUE,
                                      !.obs.call = "update"]))

ClientSmUpdate == \E i \in UpdateInputs(World) : UpdateWith(i)

VpnConnectCommand ==
    /\ cli.current_state = "VPN_CONNECTING"
    /\ cli.state_enter_age = 0
    /\ \E a \in {x \in SendInputs : obs.faults + AgentFaults(x) <= MaxFaults} :
           LET w1 == vpn_controller_connect(BeginStep(World), a)
           IN  Commit([w1 EXCEPT !.obs.faults = @ + AgentFaults(a),
                                 !.obs.unanswered =
                                     /\ w1.vpn.operation_pending
                                     /\ w1.vpn.pending_command = "connect"
                                     /\ send_command_ok(World, a)
                                     /\ World.vpn.current_state \notin {"CONNECTED", "CONNECTING"}])

Next == TimePasses \/ ClientSmUpdate \/ VpnConnectCommand

Spec == Init /\ [][Next]_vars

\* the main loop calls client_sm_update again and again, and time passes
FairSpec == Spec /\ WF_vars(TimePasses) /\ []<>(env.polled)

\* C1: in every stay in QUERYING_PS5 the query is sent exactly once: never
\* more than once, and once the handler of the state has run, not zero times.
C1_ExactlyOneQuery ==
    /\ obs.q_calls <= 1
    /\ (cli.current_state = "QUERYING_PS5" /\ obs.q_ran) => obs.q_calls = 1

\* C2: under fair updates the orchestrator always returns to IDLE from every
\* other state.
C2_ReturnsToIdle == (cli.current_state # "IDLE") ~> (cli.current_state = "IDLE")

\* C3: once the handler of VPN_CONNECTING has run, the control channel has
\* left DISCONNECTED and has a connect command pending.
C3_ConnectIssued ==
    (cli.current_state = "VPN_CONNECTING" /\ obs.vc_ran) =>
        /\ vpn.current_state # "DISCONNECTED"
        /\ vpn.operation_pending
        /\ vpn.pending_command = "connect"

\* the states in which a cycle is at work
WorkingStates ==
    {"VPN_CONNECTING", "VPN_CONNECTED", "WS_CONNECTING", "QUERYING_PS5",
     "LED_UPDATE", "WAITING"}

\* the edges of the specified graph
SpecifiedEdges ==
    {<<"IDLE", "VPN_CONNECTING">>, <<"VPN_CONNECTING", "VPN_CONNECTED">>,
     <<"VPN_CONNECTED", "WS_CONNECTING">>, <<"WS_CONNECTING", "QUERYING_PS5">>,
     <<"QUERYING_PS5", "LED_UPDATE">>, <<"LED_UPDATE", "WAITING">>,
     <<"WAITING", "CLEANUP">>, <<"ERROR", "CLEANUP">>, <<"CLEANUP", "IDLE">>}
    \cup {<<x, "ERROR">> : x \in WorkingStates}

\* C4: every state change of the orchestrator, as reported to the state sink
\* and as seen in previous_state/current_state, is an edge of the specified
\* graph.
C4_OnlyGraphEdges ==
    /\ \A k \in 1..Len(obs.state_calls) : obs.state_calls[k] \in SpecifiedEdges
    /\ cli.current_state # "IDLE" \/ cli.previous_state \in {"IDLE", "CLEANUP"}
    /\ cli.current_state = "IDLE" \/
           <<cli.previous_state, cli.current_state>> \in SpecifiedEdges

\* two changes in one update, the second into ERROR, in the second cycle
C4_Witness ==
    /\ Len(obs.state_calls) = 2
    /\ obs.state_calls[2][2] = "ERROR"
    /\ obs.presses = MaxPresses

\* C5: an orchestrator that is in ERROR after a stay in VPN_CONNECTING in
\* which a connect command was sent and never answered has VPN_TIMEOUT as its
\* last error, and the control channel has re-sent the command 3 times.
C5_TimeoutAfterRetries ==
    (cli.current_state = "ERROR" /\ cli.previous_state = "VPN_CONNECTING" /\ obs.unanswered) =>
        /\ cli.last_error = "VPN_TIMEOUT"
        /\ obs.vpn_resends = VPN_MAX_RETRY_ATTEMPTS
        /\ vpn.retry_count = VPN_MAX_RETRY_ATTEMPTS

\* the states with a deadline
TimedStates == {"VPN_CONNECTING", "WS_CONNECTING", "QUERYING_PS5"}

\* C11: an update that ends in a timed state has not found the deadline of
\* that state reached (env.polled: no time has passed since the update), and
\* a stay that a deadline ended is in ERROR with the timeout reported.
C11_DeadlineLeaves ==
    /\ (env.polled /\ cli.current_state \in TimedStates) =>
           cli.state_enter_age < StateTimeout(cli.current_state)
    /\ \A k \in 1..Len(obs.error_calls) :
           obs.error_calls[k] \in {"VPN_TIMEOUT", "WS_TIMEOUT", "PS5_TIMEOUT"} =>
               cli.current_state \in {"ERROR", "CLEANUP"}

\* the deadline of WS_CONNECTING has ended a stay
C11_Witness ==
    /\ env.polled
    /\ cli.current_state = "ERROR"
    /\ cli.previous_state = "WS_CONNECTING"
    /\ obs.error_calls = <<"WS_TIMEOUT">>

\* C12: in every stay in LED_UPDATE the indicator update is triggered exactly
\* once (never twice; once the handler has run, not zero times), and the stay
\* ends for WAITING only when the dwell, measured from that update, is over.
C12_OneUpdateThenDwell ==
    /\ obs.led_calls <= 1
    /\ (cli.current_state = "LED_UPDATE" /\ obs.led_ran) => obs.led_calls = 1
    /\ \A k \in 1..Len(obs.state_calls) :
           obs.state_calls[k] = <<"LED_UPDATE", "WAITING">> =>
               /\ obs.led_calls = 1
               /\ cli.led_update_age >= CLIENT_LED_UPDATE_DURATION_S * 1000

\* C13: an orchestrator that has entered ERROR from VPN_CONNECTING does not
\* find the control channel with a connect command still pending and retries
\* still unused.
C13_NoEarlyEscalation ==
    (cli.current_state = "ERROR" /\ cli.previous_state = "VPN_CONNECTING") =>
        ~(/\ vpn.operation_pending
          /\ vpn.pending_command = "connect"
          /\ vpn.retry_count < VPN_MAX_RETRY_ATTEMPTS)

\* C14: no step transmits a new command to the agent while an operation is
\* pending (obs.vpn_overlap: connect or disconnect of the running step sent
\* its command although operation_pending was set).
C14_OnePendingOperation == ~obs.vpn_overlap

\* the sink's invocations of a step lead, one change each, from the state
\* before the step to the state after it
SinkChain(log, old, new) ==
    /\ log # <<>>
    /\ log[1][1] = old
    /\ log[Len(log)][2] = new
    /\ \A k \in 1..Len(log) : log[k][1] # log[k][2]
    /\ \A k \in 1..(Len(log) - 1) : log[k][2] = log[k + 1][1]

\* C15: a step that changes the orchestrator's state invokes the state sink
\* once per change with (old, new), old # new, the last invocation naming
\* previous_state and current_state; a step that changes nothing invokes it
\* zero times, and so does a request to change to the current state.
C15_SinkOncePerChange ==
    [][/\ client_change_state(World, cli.current_state) = World
       /\ IF cli.current_state' # cli.current_state
          THEN /\ SinkChain(obs.state_calls', cli.current_state, cli.current_state')
               /\ cli.previous_state' = obs.state_calls'[Len(obs.state_calls')][1]
          ELSE obs.state_calls' \in {<<>>, obs.state_calls}]_vars

\* a change made by a callback (on_ws_connected), one invocation of the sink
C15_Witness ==
    /\ obs.state_calls = << <<"WS_CONNECTING", "QUERYING_PS5">> >>
    /\ cli.current_state = "QUERYING_PS5"
    /\ cli.previous_state = "WS_CONNECTING"

\* the error kinds that can end a stay in each working state
ErrorKindsOf(state) ==
    CASE state = "VPN_CONNECTING" -> {"VPN_FAILED", "VPN_TIMEOUT"}
      [] state = "VPN_CONNECTED" -> {"WS_FAILED"}
      [] state = "WS_CONNECTING" -> {"WS_FAILED", "WS_TIMEOUT"}
      [] state = "QUERYING_PS5" -> {"WS_FAILED", "PS5_FAILED", "PS5_TIMEOUT"}
      [] OTHER -> {}

\* C16: a step with a change into ERROR has invoked the error sink for it
\* exactly once, with a kind that belongs to the state left, and that kind is
\* the last error; the only other invocation such a step can hold is the
\* MAX_RETRIES report of the ERROR handler, made after the change.
C16_ErrorSinkAtEntry ==
    /\ \A k \in 1..Len(obs.state_calls) :
           obs.state_calls[k][2] = "ERROR" =>
               /\ obs.error_calls # <<>>
               /\ obs.error_calls[1] \in ErrorKindsOf(obs.state_calls[k][1])
               /\ \/ /\ Len(obs.error_calls) = 1
                     /\ cli.last_error = obs.error_calls[1]
                  \/ /\ Len(obs.error_calls) = 2
                     /\ obs.error_calls[2] = "MAX_RETRIES"
                     /\ k < Len(obs.state_calls)
    /\ cli.current_state = "ERROR" =>
           /\ cli.last_error \in ErrorKindsOf(cli.previous_state)
           /\ cli.error_count > 0

\* the session's error callback has ended a stay in WS_CONNECTING
C16_Witness ==
    /\ obs.state_calls # <<>>
    /\ obs.state_calls[1] = <<"WS_CONNECTING", "ERROR">>
    /\ obs.error_calls # <<>>
    /\ obs.error_calls[1] = "WS_FAILED"

(***************************************************************************)
(* SpecStatus: one press cycle of the whole client without environment     *)
(* faults, the server answering the query with any of the payloads         *)
(***************************************************************************)

StatusInputs(w) ==
    {i \in UpdateInputsAll(w) :
        /\ UpdateFaults(w, i) = 0
        /\ (w.obs.presses >= 1 /\ w.btn.current_state = "IDLE") => i.gpio = 1}

StatusUpdate == \E i \in StatusInputs(World) : UpdateWith(i)

NextStatus == TimePasses \/ StatusUpdate \/ VpnConnectCommand

SpecStatus == Init /\ [][NextStatus]_vars

\* the status a payload stands for
StatusOf(message) ==
    CASE StatusFields(message) = {"on"} -> "ON"
      [] StatusFields(message) = {"standby"} -> "STANDBY"
      [] StatusFields(message) = {"off"} -> "OFF"
      [] StatusFields(message) = {} -> "UNKNOWN"
      [] OTHER -> "ON"

\* C17: after an update in which a message arrived in QUERYING_PS5, the
\* orchestrator has changed to LED_UPDATE; a payload with one status field
\* has set that status and counted one successful query; a payload with none
\* has set UNKNOWN, counted no success, reported no error and not led to
\* ERROR.
C17_MessageInQuerying ==
    (obs.msg # <<>> /\ obs.msg[2] = "QUERYING_PS5") =>
        /\ <<"QUERYING_PS5", "LED_UPDATE">> \in {obs.state_calls[k] : k \in 1..Len(obs.state_calls)}
        /\ cli.ps5_status = StatusOf(obs.msg[1])
        /\ cli.stats.successful_queries = IF StatusFields(obs.msg[1]) = {} THEN 0 ELSE 1
        /\ cli.stats.failed_queries = IF StatusFields(obs.msg[1]) = {} THEN 1 ELSE 0
        /\ obs.error_calls = <<>>
        /\ cli.current_state \in {"LED_UPDATE", "WAITING"}
        /\ \A k \in 1..Len(obs.state_calls) : obs.state_calls[k][2] # "ERROR"

\* a payload without a status field has arrived in QUERYING_PS5
C17_Witness ==
    /\ obs.msg = <<"other", "QUERYING_PS5">>
    /\ cli.ps5_status = "UNKNOWN"
    /\ cli.current_state = "LED_UPDATE"

\* C18: a connect() that finds the control channel CONNECTED or CONNECTING
\* returns failure, sends nothing and leaves the whole context as it was
\* (state, pending flag, retry counter, pending command, socket, timers); a
\* disconnect() that finds it DISCONNECTED returns success, sends nothing
\* and changes nothing.
C18_SequencingRejected ==
    [][/\ (obs.call' = "connect" /\ vpn.current_state \in {"CONNECTED", "CONNECTING"}) =>
              /\ obs.ret' = -1
              /\ obs.vpn_sends' = 0
              /\ vpn' = vpn
       /\ (obs.call' = "disconnect" /\ vpn.current_state = "DISCONNECTED") =>
              /\ obs.ret' = 0
              /\ obs.vpn_sends' = 0
              /\ vpn' = vpn]_vars

\* a connect() has been rejected while an earlier connect is pending
C18_Witness ==
    /\ obs.call = "connect"
    /\ obs.ret = -1
    /\ obs.vpn_sends = 0
    /\ vpn.current_state = "CONNECTING"
    /\ vpn.operation_pending
    /\ vpn.retry_count > 0

\* C19: send(payload) is rejected exactly when the session is uninitialized,
\* the payload is null, the state is not CONNECTED, or the payload is as long
\* as the maximum message size or longer (the longest payload accepted has
\* one character less than the maximum); a rejected send leaves the session
\* context, with its state and its outbound buffer, unchanged, and an
\* accepted one puts the payload in the outbound buffer.
C19_SendRejection ==
    [][obs.call' = "send" =>
           /\ (obs.ret' = -1) <=>
                  \/ ~ws.initialized
                  \/ obs.arg'.null
                  \/ ws.current_state # "CONNECTED"
                  \/ obs.arg'.len >= WS_MAX_MESSAGE_SIZE
           /\ obs.ret' \in {0, -1}
           /\ (obs.ret' = -1) => ws' = ws
           /\ (obs.ret' = 0) =>
                  /\ ws'.send_buffer_len = obs.arg'.len
                  /\ ws'.current_state = ws.current_state]_vars

\* a payload of exactly the maximum size was handed to a CONNECTED session
\* whose outbound buffer holds an earlier payload, and was rejected
C19_Witness ==
    /\ obs.call = "send"
    /\ obs.ret = -1
    /\ ~obs.arg.null
    /\ obs.arg.len = WS_MAX_MESSAGE_SIZE
    /\ ws.initialized
    /\ ws.current_state = "CONNECTED"
    /\ ws.send_buffer_len = WS_MAX_MESSAGE_SIZE - 1

\* C19 as stated: only a payload longer than the maximum size is rejected
\* for its length
C19_Claimed ==
    [][obs.call' = "send" =>
           /\ (obs.ret' = -1) <=>
                  \/ ~ws.initialized
                  \/ obs.arg'.null
                  \/ ws.current_state # "CONNECTED"
                  \/ obs.arg'.len > WS_MAX_MESSAGE_SIZE
           /\ (obs.ret' = -1) => ws' = ws]_vars

\* C20: on an initialized session, connect() while CONNECTED or CONNECTING
\* returns an error and changes nothing: the context is as it was, no sink is
\* invoked and the transport is not called.  From DISCONNECTED or ERROR it
\* moves to CONNECTING and calls the transport once; when the transport opens
\* the session it returns success in CONNECTING, and when the transport fails
\* the FSM is in ERROR, come from CONNECTING, with the error sink invoked,
\* when connect() returns failure.
C20_ConnectSequencing ==
    [][(obs.call' = "connect" /\ ws.initialized) =>
           /\ ws.current_state \in {"CONNECTED", "CONNECTING"} =>
                  /\ obs.ret' = -1
                  /\ ws' = ws
                  /\ env.link' = env.link
                  /\ obs.ws_sinks' = <<>>
                  /\ obs.ws_opens' = 0
           /\ ws.current_state \in {"DISCONNECTED", "ERROR"} =>
                  /\ obs.ws_opens' = 1
                  /\ obs.ret' \in {0, -1}
                  /\ (obs.ret' = 0) =>
                         /\ ws'.current_state = "CONNECTING"
                         /\ ws'.previous_state = ws.current_state
                         /\ env.link' = "connecting"
                  /\ (obs.ret' = -1) =>
                         /\ ws'.current_state = "ERROR"
                         /\ ws'.previous_state = "CONNECTING"
                         /\ obs.ws_sinks' = <<"ERROR">>]_vars

\* a connect() has been rejected on an open session that has a payload queued
C20_Witness ==
    /\ obs.call = "connect"
    /\ obs.ret = -1
    /\ obs.ws_opens = 0
    /\ ws.current_state = "CONNECTED"
    /\ ws.send_buffer_len > 0
    /\ env.link = "open"

\* C21: a disconnect() on an initialized session leaves it DISCONNECTED with
\* auto-reconnect disabled, and invokes the disconnected sink exactly once
\* when the state was not DISCONNECTED and no sink at all when it was; while
\* auto-reconnect is disabled no service call starts a connection attempt,
\* whatever time has passed, and only set_auto_reconnect enables it again.
C21_DisconnectStopsReconnect ==
    [][/\ (obs.call' = "disconnect" /\ ws.initialized) =>
              /\ ws'.current_state = "DISCONNECTED"
              /\ ~ws'.auto_reconnect
              /\ obs.ws_opens' = 0
              /\ obs.ws_sinks' = IF ws.current_state # "DISCONNECTED"
                                 THEN <<"DISCONNECTED">>
                                 ELSE <<>>
       /\ (obs.call' = "service" /\ ~ws.auto_reconnect) =>
              /\ obs.ws_opens' = 0
              /\ ws'.current_state = "CONNECTING" => ws.current_state = "CONNECTING"
              /\ ws'.reconnect_attempts <= ws.reconnect_attempts
       /\ (~ws.auto_reconnect /\ ws'.auto_reconnect) =>
              obs.call' = "set_auto_reconnect"]_vars

\* after a disconnect of an open session, more than the longest reconnect
\* interval has passed and a service call has run without an attempt
C21_Witness ==
    /\ obs.call = "service"
    /\ ws.initialized
    /\ ~ws.auto_reconnect
    /\ ws.current_state = "DISCONNECTED"
    /\ ws.previous_state = "CONNECTED"
    /\ ws.last_reconnect_age >= WS_MAX_RECONNECT_INTERVAL_MS
    /\ obs.ws_opens = 0

C23_HeartbeatTimeout ==
    [][obs.call' = "service" =>
           /\ obs.pings' <= 1
           /\ obs.pings' = 1 => ws.last_ping_age >= ws.ping_interval
           /\ obs.forced' =>
                  /\ obs.pings' = 0
                  /\ ws.waiting_for_pong
                  /\ ws.last_ping_age >= WS_PING_TIMEOUT_MS]_vars

(***************************************************************************)
(* SpecCycle: one press cycle of the whole client, with the environment    *)
(* faults of Spec                                                          *)
(***************************************************************************)

CycleInputs(w) ==
    {i \in UpdateInputs(w) :
        (w.obs.presses >= 1 /\ w.btn.current_state = "IDLE") => i.gpio = 1}

CycleUpdate == \E i \in CycleInputs(World) : UpdateWith(i)

NextCycle == TimePasses \/ CycleUpdate \/ VpnConnectCommand

SpecCycle == Init /\ [][NextCycle]_vars

\* C24: an update that finds the orchestrator in CLEANUP runs the CLEANUP
\* handler, which calls ws_client_disconnect and vpn_controller_disconnect,
\* sets the error counter to zero when the last error is NONE and leaves it
\* as it is otherwise, and ends the update in IDLE; the session is then
\* DISCONNECTED with auto-reconnect off.
C24_CleanupHandler ==
    [][(obs.call' = "update" /\ cli.current_state = "CLEANUP") =>
           /\ obs.handlers' = <<"CLEANUP">>
           /\ \E k \in DOMAIN obs.api' : obs.api'[k] = "ws_client_disconnect"
           /\ \E k \in DOMAIN obs.api' : obs.api'[k] = "vpn_controller_disconnect"
           /\ ws'.current_state = "DISCONNECTED" /\ ~ws'.auto_reconnect
           /\ vpn'.current_state # "DISCONNECTED" =>
                  (obs.vpn_sends' > 0 \/ vpn.current_state = "UNKNOWN")
           /\ cli'.current_state = "IDLE"
           /\ cli'.previous_state = "CLEANUP"
           /\ cli.last_error = "NONE" => cli'.error_count = 0
           /\ cli.last_error # "NONE" => cli'.error_count = cli.error_count]_vars

\* the CLEANUP handler has run after an error: the counter is kept
C24_Witness ==
    /\ obs.call = "update"
    /\ obs.handlers = <<"CLEANUP">>
    /\ cli.current_state = "IDLE"
    /\ cli.last_error # "NONE"
    /\ cli.error_count > 0
    /\ ws.current_state = "DISCONNECTED"

(***************************************************************************)
(* SpecRetry: one press cycle of the whole client without environment      *)
(* faults, with the retry limit of the configuration file at 1 or 2 and    *)
(* auto-retry on or off                                                    *)
(***************************************************************************)

\* values of max_retry_attempts read from the configuration
RetryLimits == {1, 2}

InitRetry ==
    \E auto_retry \in BOOLEAN, limit \in RetryLimits :
        /\ btn = InitBtn(BUTTON_POLL_INTERVAL_MS)
        /\ vpn = InitVpn(VPN_RETRY_INTERVAL_MS)
        /\ ws = InitWs(WS_RECONNECT_INTERVAL_MS)
        /\ cli = [InitCli(auto_retry) EXCEPT !.config.max_retry_attempts = limit]
        /\ env = InitEnv
        /\ obs = InitObs

SpecRetry == InitRetry /\ [][NextStatus]_vars

\* C25: an update that finds the orchestrator in ERROR runs the ERROR
\* handler; with auto-retry enabled and the error counter below
\* max_retry_attempts it reports nothing, otherwise it invokes the error sink
\* once, with MAX_RETRIES; either way the update ends in CLEANUP.  ERROR is
\* left for no other state, and the update that finds CLEANUP ends in IDLE.
C25_ErrorBranches ==
    [][/\ (obs.call' = "update" /\ cli.current_state = "ERROR") =>
              /\ obs.handlers' = <<"ERROR">>
              /\ cli'.current_state = "CLEANUP"
              /\ obs.state_calls' = <<<<"ERROR", "CLEANUP">>>>
              /\ IF cli.config.auto_retry /\ cli.error_count < cli.config.max_retry_attempts
                 THEN /\ obs.error_calls' = <<>>
                      /\ cli'.last_error = cli.last_error
                      /\ cli'.error_count = cli.error_count
                 ELSE /\ obs.error_calls' = <<"MAX_RETRIES">>
                      /\ cli'.last_error = "MAX_RETRIES"
       /\ (obs.handlers' = <<"ERROR">>) => cli'.current_state = "CLEANUP"
       /\ (cli.current_state = "ERROR" /\ cli'.current_state # "ERROR") =>
              cli'.current_state = "CLEANUP"
       /\ (cli.current_state = "CLEANUP" /\ cli'.current_state # "CLEANUP") =>
              cli'.current_state = "IDLE"
       /\ (obs.call' = "update" /\ cli.current_state = "CLEANUP") =>
              cli'.current_state = "IDLE"]_vars

\* with auto-retry enabled the error counter has reached the limit and the
\* ERROR handler has reported the exhausted retries
C25_Witness ==
    /\ obs.call = "update"
    /\ obs.handlers = <<"ERROR">>
    /\ cli.config.auto_retry
    /\ cli.error_count > cli.config.max_retry_attempts
    /\ obs.error_calls = <<"MAX_RETRIES">>
    /\ cli.current_state = "CLEANUP"

\* C26: in every update the three leaf modules are ticked once each, in the
\* order button, control channel, session, before the handler switch; one
\* handler runs, the one of the state the servicing has left, with the
\* deadline of that state; when a leaf callback has changed the state during
\* the servicing it is the new state's handler that runs in that update.
C26_ServiceThenHandle ==
    [][obs.call' = "update" =>
           /\ obs.ticks' = <<"button_handler_process", "vpn_controller_process",
                             "ws_client_service", "handler">>
           /\ obs.handlers' = <<obs.serviced'>>
           /\ cli'.current_timeout = StateTimeout(obs.serviced')
           /\ obs.serviced' # cli.current_state =>
                  /\ obs.state_calls' # <<>>
                  /\ obs.state_calls'[1] = <<cli.current_state, obs.serviced'>>
           /\ obs.serviced' = cli.current_state =>
                  \A k \in DOMAIN obs.state_calls' :
                      obs.state_calls'[k][1] = cli.current_state => k = 1]_vars

\* the session's connected callback has moved the orchestrator to
\* QUERYING_PS5 during the servicing, and the handler of QUERYING_PS5 has
\* sent the query in the same update
C26_Witness ==
    /\ obs.call = "update"
    /\ obs.serviced = "QUERYING_PS5"
    /\ obs.handlers = <<"QUERYING_PS5">>
    /\ obs.state_calls = <<<<"WS_CONNECTING", "QUERYING_PS5">>>>
    /\ cli.current_timeout = CLIENT_PS5_QUERY_TIMEOUT_S * 1000
    /\ cli.query_sent
    /\ ws.send_buffer_len > 0

(***************************************************************************)
(* SpecLoop: the loop of run_main_loop as main.c writes it.  An iteration  *)
(* calls client_sm_update, then button_handler_process and                 *)
(* ws_client_service itself, then sleeps; the sleeps add up in TimePasses. *)
(***************************************************************************)

\* the line as the loop's own button_handler_process samples it
LoopGpioOf(w) ==
    IF w.obs.presses < 1 \/ w.btn.current_state # "IDLE" THEN {0, 1} ELSE {1}

\* what the transport delivers during the loop's own ws_client_service
LoopWsInputsOf(w) ==
    {j \in WsInputs(w) : j.ev.payload \in {"on", "other"} /\ WsFaults(w, j) = 0}

\* the part of an iteration that follows client_sm_update
LoopAfterUpdate(w, i) ==
    \E current_value \in LoopGpioOf(w) :
        \E j \in LoopWsInputsOf(w) :
            Commit(ForgetPress(
                [ws_client_service(button_handler_process(w, current_value), j) EXCEPT
                     !.obs.unanswered = @ /\ AgentSilent(i),
                     !.obs.faults = @ + UpdateFaults(World, i),
                     !.env.polled = TRUE,
                     !.obs.call = "loop"]))

MainLoopIteration ==
    \E i \in CycleInputs(World) :
        LoopAfterUpdate(client_sm_update(BeginStep(World), i), i)

NextLoop == TimePasses \/ MainLoopIteration \/ VpnConnectCommand

SpecLoop == Init /\ [][NextLoop]_vars

\* C27: in an iteration of the main loop the tick functions of the button,
\* the control channel and the session are each called exactly once, from
\* client_sm_update, before its handler switch, and nowhere else.
C27_SoleDriver ==
    obs.call = "loop" =>
        obs.ticks = <<"button_handler_process", "vpn_controller_process",
                      "ws_client_service", "handler">>

(***************************************************************************)
(* SpecSignal: the client with SIGUSR1.  signal_handler runs whenever the  *)
(* signal is delivered: between two calls of the loop, or inside           *)
(* client_sm_update (here between the servicing and the handler switch).   *)
(***************************************************************************)

\* client_sm_trigger_button: declared in client_state_machine.h, its body
\* is not in the repository; taken as the press it is documented to trigger
client_sm_trigger_button(w, long_press) ==
    on_button_event([w EXCEPT !.obs.presses = Inc(@, MaxPresses)],
                    IF long_press THEN "LONG_PRESS" ELSE "SHORT_PRESS")

\* signal_handler, SIGUSR1: calls client_sm_trigger_button on the context
signal_handler(w) ==
    IF w.cli.initialized THEN client_sm_trigger_button(w, FALSE) ELSE w

\* SIGUSR1 delivered between two calls of the loop (one simulated press,
\* sent while the button itself is at rest)
SignalUsr1 ==
    /\ obs.presses < 1
    /\ btn.current_state = "IDLE"
    /\ Commit([signal_handler(BeginStep(World)) EXCEPT !.obs.call = "signal"])

\* SIGUSR1 delivered inside client_sm_update, before the handler switch
SignalDuringUpdate ==
    /\ obs.presses < 1
    /\ btn.current_state = "IDLE"
    /\ cli.initialized
    /\ \E i \in {x \in CycleInputs(World) : x.gpio = 1} :
           LET w1 == set_current_timeout(
                         ws_client_service(
                             vpn_controller_process(
                                 button_handler_process(BeginStep(World), i.gpio),
                                 i.agent),
                             i.ws))
               w2 == handle_current_state(signal_handler(w1), i)
           IN  Commit(ForgetPress([w2 EXCEPT !.obs.unanswered = @ /\ AgentSilent(i),
                                             !.obs.faults = @ + UpdateFaults(World, i),
                                             !.env.polled = TRUE,
                                             !.obs.call = "interrupted"]))

NextSignal == TimePasses \/ CycleUpdate \/ VpnConnectCommand \/ SignalUsr1 \/ SignalDuringUpdate

SpecSignal == Init /\ [][NextSignal]_vars

C29_DesignatedStates ==
    \A k \in DOMAIN obs.events :
        LET event == obs.events[k][1]
            from == obs.events[k][2]
            to == obs.events[k][3]
        IN  to = CASE event = "SHORT_PRESS" /\ from = "IDLE" -> "VPN_CONNECTING"
                   [] event = "on_ws_connected" /\ from = "WS_CONNECTING" -> "QUERYING_PS5"
                   [] event = "on_ws_message" /\ from = "QUERYING_PS5" -> "LED_UPDATE"
                   [] event = "on_ws_error" /\ from \in {"WS_CONNECTING", "QUERYING_PS5"} -> "ERROR"
                   [] OTHER -> from

\* an update in which a press is ignored outside IDLE and a session event
\* advances the orchestrator from its designated state
C29_Witness ==
    /\ obs.call = "update"
    /\ \E k \in DOMAIN obs.events :
           /\ obs.events[k][1] = "SHORT_PRESS"
           /\ obs.events[k][2] # "IDLE"
    /\ \E k \in DOMAIN obs.events :
           /\ obs.events[k][1] \in {"on_ws_connected", "on_ws_message", "on_ws_error"}
           /\ obs.events[k][2] # obs.events[k][3]

MaxRegs == 2

vpn_controller_init(w) ==
    IF w.vpn.initialized
    THEN w
    ELSE [w EXCEPT !.vpn.sockfd = -1,
                   !.vpn.current_state = "DISCONNECTED",
                   !.vpn.previous_state = "UNKNOWN",
                   !.vpn.retry_count = 0,
                   !.vpn.operation_pending = FALSE,
                   !.vpn.initialized = TRUE]

\* (obs.regs numbers the registrations; a NULL sink is registration 0)
vpn_controller_set_callback(w, callback) ==
    [w EXCEPT !.vpn.callback = callback,
              !.obs.regs = IF callback # 0 THEN callback ELSE @]

\* vpn_controller_cleanup leaving the sink registered
vpn_controller_cleanup_keep_callback(w) ==
    IF ~w.vpn.initialized
    THEN w
    ELSE [w EXCEPT !.vpn.sockfd = -1,
                   !.vpn.initialized = FALSE,
                   !.vpn.current_state = "UNKNOWN",
                   !.vpn.operation_pending = FALSE,
                   !.obs.retired = IF w.vpn.callback # 0
                                   THEN @ \cup {<<"vpn", w.vpn.callback>>} ELSE @]

\* (obs.retired: the registrations made before a cleanup)
vpn_controller_cleanup(w) ==
    IF ~w.vpn.initialized
    THEN w
    ELSE [w EXCEPT !.vpn.sockfd = -1,
                   !.vpn.initialized = FALSE,
                   !.vpn.current_state = "UNKNOWN",
                   !.vpn.callback = 0,
                   !.vpn.operation_pending = FALSE,
                   !.obs.retired = IF w.vpn.callback # 0
                                   THEN @ \cup {<<"vpn", w.vpn.callback>>} ELSE @]

\* ok: the host and port are valid and the transport's context is created
ws_client_init(w, ok) ==
    IF w.ws.initialized
    THEN w
    ELSE [w EXCEPT !.ws.current_state = "DISCONNECTED",
                   !.ws.previous_state = "DISCONNECTED",
                   !.ws.reconnect_attempts = 0,
                   !.ws.send_buffer_len = 0,
                   !.ws.initialized = ok]

ws_client_set_callbacks(w, callbacks) ==
    [w EXCEPT !.ws.callbacks = callbacks,
              !.obs.regs = IF callbacks # 0 THEN callbacks ELSE @]

\* ws_client_cleanup: the session is disconnected first
ws_client_cleanup(w) ==
    IF ~w.ws.initialized
    THEN w
    ELSE [ws_client_disconnect(w) EXCEPT
              !.ws.initialized = FALSE,
              !.ws.current_state = "DISCONNECTED",
              !.ws.callbacks = 0,
              !.obs.retired = IF w.ws.callbacks # 0
                              THEN @ \cup {<<"ws", w.ws.callbacks>>} ELSE @]

\* the static initialisers of g_vpn_ctx and g_ws_ctx
InitLife ==
    /\ \E module \in {"vpn", "ws"} : obs = [InitObs EXCEPT !.regs = 0, !.module = module]
    /\ btn = InitBtn(BUTTON_DEFAULT_DEBOUNCE_MS)
    /\ vpn = [InitVpn(VPN_RETRY_INTERVAL_MS) EXCEPT
                  !.initialized = FALSE, !.current_state = "UNKNOWN", !.callback = 0]
    /\ ws = [InitWs(WS_RECONNECT_INTERVAL_MS) EXCEPT
                 !.initialized = FALSE, !.callbacks = 0]
    /\ cli = InitCli(TRUE)
    /\ env = InitEnv

VpnInit ==
    Commit([vpn_controller_init(BeginStep(World)) EXCEPT
                !.obs.module = "vpn", !.obs.call = "init",
                !.obs.ret = IF vpn.initialized THEN -1 ELSE 0])

VpnCleanup ==
    Commit([vpn_controller_cleanup(BeginStep(World)) EXCEPT
                !.obs.module = "vpn", !.obs.call = "cleanup"])

VpnSetCallback ==
    /\ obs.regs < MaxRegs
    /\ \E callback \in {0, obs.regs + 1} :
           Commit([vpn_controller_set_callback(BeginStep(World), callback) EXCEPT
                       !.obs.module = "vpn", !.obs.call = "set_callback"])

WsInit ==
    \E ok \in BOOLEAN :
        Commit([ws_client_init(BeginStep(World), ok) EXCEPT
                    !.obs.module = "ws", !.obs.call = "init",
                    !.obs.ret = IF ws.initialized \/ ~ok THEN -1 ELSE 0])

WsCleanup ==
    Commit([ws_client_cleanup(BeginStep(World)) EXCEPT
                !.obs.module = "ws", !.obs.call = "cleanup"])

WsSetCallbacks ==
    /\ obs.regs < MaxRegs
    /\ \E callbacks \in {0, obs.regs + 1} :
           Commit([ws_client_set_callbacks(BeginStep(World), callbacks) EXCEPT
                       !.obs.module = "ws", !.obs.call = "set_callbacks"])

NextLife ==
    \/ obs.module = "vpn" /\ VpnInit
    \/ obs.module = "vpn" /\ VpnCleanup
    \/ obs.module = "vpn" /\ VpnSetCallback
    \/ obs.module = "vpn" /\ VpnConnect
    \/ obs.module = "vpn" /\ VpnDisconnect
    \/ obs.module = "vpn" /\ VpnProcess
    \/ obs.module = "ws" /\ WsInit
    \/ obs.module = "ws" /\ WsCleanup
    \/ obs.module = "ws" /\ WsSetCallbacks
    \/ obs.module = "ws" /\ WsConnect
    \/ obs.module = "ws" /\ WsSend
    \/ obs.module = "ws" /\ WsService
    \/ obs.module = "ws" /\ WsDisconnect
    \/ obs.module = "ws" /\ WsSetAutoReconnect

SpecLife == InitLife /\ [][NextLife]_vars

\* C31: the lifecycle of the control channel and of the session: an operation
\* called before init changes nothing of the module and, where it returns a
\* value, returns failure; init on an initialized module returns failure and
\* changes nothing; an init that succeeds, after a cleanup as well, leaves the
\* module initialized and DISCONNECTED.
C31_Lifecycle ==
    [][/\ (obs.module' = "vpn" /\ ~vpn.initialized /\ obs.call' \notin {"init", "cleanup"}) =>
              /\ vpn' = vpn
              /\ obs.call' \in {"connect", "disconnect"} => obs.ret' = -1
       /\ (obs.module' = "ws" /\ ~ws.initialized /\ obs.call' \notin {"init", "cleanup"}) =>
              /\ ws' = ws
              /\ obs.call' \in {"connect", "send"} => obs.ret' = -1
       /\ (obs.module' = "vpn" /\ obs.call' = "init") =>
              IF vpn.initialized
              THEN obs.ret' = -1 /\ vpn' = vpn
              ELSE /\ obs.ret' = 0
                   /\ vpn'.initialized
                   /\ vpn'.current_state = "DISCONNECTED"
                   /\ ~vpn'.operation_pending
       /\ (obs.module' = "ws" /\ obs.call' = "init") =>
              IF ws.initialized
              THEN obs.ret' = -1 /\ ws' = ws
              ELSE obs.ret' = 0 =>
                       /\ ws'.initialized
                       /\ ws'.current_state = "DISCONNECTED"]_vars

\* C32: cleanup unregisters the sinks of the control channel and of the
\* session: outside the cleanup itself, no step invokes a sink that was
\* registered before a cleanup.
C32_CleanupUnregisters ==
    obs.call # "cleanup" =>
        \A k \in DOMAIN obs.invoked : obs.invoked[k] \notin obs.retired

\* a sink was registered, the control channel was cleaned up and initialized
\* again, and a connect changes its state without invoking any sink
C32_Witness ==
    /\ obs.module = "vpn"
    /\ obs.call = "connect"
    /\ obs.ret = 0
    /\ obs.retired = {<<"vpn", 1>>}
    /\ vpn.initialized
    /\ vpn.previous_state = "DISCONNECTED"
    /\ vpn.current_state = "CONNECTING"
    /\ vpn.callback = 0
    /\ obs.invoked = <<>>

\* C33: a call of vpn_controller_process that finds the control channel
\* initialized with no operation pending changes nothing of it (state, retry
\* counter, pending flag included), invokes no sink and does not read from
\* the agent's socket, whatever the agent has sent.
C33_IdleTickNoOp ==
    [][(obs.ticks' = <<"vpn_controller_process">> /\ vpn.initialized
            /\ ~vpn.operation_pending) =>
           /\ vpn' = vpn
           /\ obs.vpn_recvs' = 0
           /\ obs.invoked' = <<>>]_vars

\* the tunnel is up, nothing is pending, and a call of vpn_controller_process
\* has read nothing
C33_Witness ==
    /\ obs.ticks = <<"vpn_controller_process">>
    /\ vpn.current_state = "CONNECTED"
    /\ ~vpn.operation_pending
    /\ obs.vpn_recvs = 0
    /\ obs.invoked = <<>>

(***************************************************************************)
(* FairVpn: the control channel with an agent that confirms: a tick that   *)
(* can read the agent's "connected" eventually does.                       *)
(***************************************************************************)

\* a tick during which the agent's reply "connected" is there to be read
VpnAgentConfirms ==
    \E a \in {x \in AgentInputs : x.conn /\ x.send /\ x.recv = "connected"} :
        Commit([vpn_controller_process(BeginStep(World), a) EXCEPT
                    !.obs.vpn_spent = VpnBudgetSpent(World),
                    !.obs.module = "vpn",
                    !.obs.call = "", !.obs.ret = 0])

FairVpn == SpecVpn /\ WF_vars(VpnAgentConfirms)

\* C34: a recognized state token read for a pending operation, "connecting"
\* and "disconnecting" included, moves the control channel to that state and
\* clears the pending flag and the retry counter; and a control channel that
\* has read "connecting" for its connect does not stay in CONNECTING: with
\* the agent's "connected" there to be read it reports CONNECTED, unless a
\* failure or a disconnect takes it elsewhere first.
C34_TokenThenConnected ==
    /\ [][(obs.vpn_token' \in {"connected", "connecting", "disconnecting",
                               "disconnected", "error"}) =>
              /\ vpn'.current_state = parse_state_from_response(obs.vpn_token')
              /\ ~vpn'.operation_pending
              /\ vpn'.retry_count = 0]_vars
    /\ (obs.vpn_token = "connecting" /\ vpn.current_state = "CONNECTING")
           ~> (vpn.current_state # "CONNECTING")

\* C35: a payload without a recognized state token, read for a pending
\* operation, leaves the control channel as it was: state, pending flag,
\* retry counter, the operation's start and timeout keep their values, and
\* no sink is invoked.
C35_UnrecognizedPayload ==
    [][obs.vpn_token' = "garbled" =>
           /\ vpn' = vpn
           /\ vpn'.operation_pending
           /\ obs.invoked' = <<>>]_vars

\* a connect that was re-sent once is still pending after a payload without
\* a state token was read
C35_Witness ==
    /\ obs.vpn_token = "garbled"
    /\ vpn.current_state = "CONNECTING"
    /\ vpn.operation_pending
    /\ vpn.retry_count = 1
    /\ vpn.operation_timeout = VPN_CONNECT_TIMEOUT_MS

\* C36: a service call that closes the session for a missing pong leaves the
\* auto-reconnect flag as it found it, so a session that had auto-reconnect
\* enabled is still due to be reconnected by later service calls.
C36_PongTimeoutKeepsReconnect ==
    [][(obs.forced' /\ ws.auto_reconnect) =>
           /\ ws'.current_state = "DISCONNECTED"
           /\ ws'.auto_reconnect]_vars

\* C37: while the orchestrator is IDLE or VPN_CONNECTING the network session
\* is neither CONNECTING nor CONNECTED, and no update made in those states
\* starts a session connect attempt.
C37_SessionAfterTunnel ==
    /\ [](cli.current_state \in {"IDLE", "VPN_CONNECTING"} =>
              ws.current_state \notin {"CONNECTING", "CONNECTED"})
    /\ [][cli.current_state \in {"IDLE", "VPN_CONNECTING"} =>
              obs.ws_opens' = 0]_vars

\* C38: whenever a control-channel operation is pending the state is
\* CONNECTING or DISCONNECTING; ERROR, CONNECTED and DISCONNECTED never go
\* with a pending operation.
C38_PendingOnlyInTransit ==
    vpn.operation_pending => vpn.current_state \in {"CONNECTING", "DISCONNECTING"}

(***************************************************************************)
(* SpecHistory: two press cycles of the whole client without environment   *)
(* faults, with auto-retry enabled and the retry limits of SpecRetry       *)
(***************************************************************************)

InitHistory ==
    \E limit \in RetryLimits :
        /\ btn = InitBtn(BUTTON_POLL_INTERVAL_MS)
        /\ vpn = InitVpn(VPN_RETRY_INTERVAL_MS)
        /\ ws = InitWs(WS_RECONNECT_INTERVAL_MS)
        /\ cli = [InitCli(TRUE) EXCEPT !.config.max_retry_attempts = limit]
        /\ env = InitEnv
        /\ obs = InitObs

HistoryInputs(w) == {i \in UpdateInputs(w) : UpdateFaults(w, i) = 0}

HistoryUpdate == \E i \in HistoryInputs(World) : UpdateWith(i)

NextHistory == TimePasses \/ HistoryUpdate \/ VpnConnectCommand

SpecHistory == InitHistory /\ [][NextHistory]_vars

C40_FreshSessionNoPong ==
    [][(ws.current_state # "CONNECTED" /\ ws'.current_state = "CONNECTED") =>
           ~ws'.waiting_for_pong]_vars

====
